---- MODULE Spec2Model ----
(***************************************************************************)
(* Run-sync fan-out pipeline and leaderboard ranking of the Stride backend *)
(* (app/routes/runs.py and app/services/*.py).                             *)
(*                                                                         *)
(* Conventions.  An Optional[int] is an integer with NoInt (-1) for None;  *)
(* every integer the program stores in such a place is positive.  A row    *)
(* that may be absent is a record with an `exists` flag.  A calendar date  *)
(* is a day ordinal counted from 2024-12-28; its ISO string is the triple  *)
(* <<year, month, day>>.  A time string "M:SS" is the sequence of its      *)
(* colon-separated parts.                                                  *)
(***************************************************************************)
EXTENDS Integers, Sequences, FiniteSets, TLC

VARIABLES
    users,        \* users table: user -> [opt_in, gender]
    runs,         \* runs table: run id -> row (exists flag)
    pbs,          \* personal_bests: <<user, category>> -> row
    streaks,      \* user_streaks: user -> row
    achRows,      \* user_achievements: sequence of rows, in insertion order
    participations, \* challenge_participations: <<user, challenge>> -> row
    registrations, \* event_registrations: <<user, event>> -> row
    shoes,        \* shoes: shoe id -> row
    activity,     \* activity_logs: sequence of rows, in insertion order
    pc,           \* per request slot: the statement it executes next
    req,          \* per request slot: [user, runs] of the request being served
    loc,          \* per request slot: the locals of sync_runs and its callees
    sess,         \* per request slot: the ORM session (identity map, pending rows)
    resp,         \* per request slot: the response returned, if any
    hist,         \* history: what each request did (for stating the claims)
    inp,          \* input of the pure function / query under check
    out           \* its result

vars == <<users, runs, pbs, streaks, achRows, participations, registrations, shoes, activity,
          pc, req, loc, sess, resp, hist, inp, out>>

storeVars == <<users, runs, pbs, streaks, achRows, participations, registrations, shoes, activity>>
reqVars == <<pc, req, loc, sess, resp, hist>>

----------------------------------------------------------------------------
(* Bounds of the model *)

MaxSplits == 5
MaxStreakRuns == 4
MaxDay == 11
MaxLimit == 2

NoInt == 0 - 1
NoDate == <<>>

Users == {"u1", "u2", "u3"}

----------------------------------------------------------------------------
(* Calendar: date.isoformat(), date.fromisoformat(), date subtraction *)

\* date.isoformat(): day ordinal -> <<year, month, day>>
IsoFormat(n) ==
    IF n + 28 <= 31 THEN <<2024, 12, n + 28>> ELSE <<2025, 1, n - 3>>

\* date.fromisoformat(): <<year, month, day>> -> day ordinal
FromIsoFormat(s) ==
    IF s[1] = 2024 THEN s[3] - 28 ELSE s[3] + 3

\* extract("year", completed_at)
YearOf(n) == IsoFormat(n)[1]

----------------------------------------------------------------------------
(* Split timing: _parse_time_to_seconds, _fastest_consecutive_time *)

\* A part of a time string: digits (int() succeeds) or not.
Num(n) == [num |-> TRUE, n |-> n]
NotNum == [num |-> FALSE, n |-> 0]

\* The "time" value of a split entry: a JSON string (its parts) or another JSON value.
TimeStr(ps) == [isStr |-> TRUE, parts |-> ps]
TimeNonStr == [isStr |-> FALSE, parts |-> <<>>]

PyNone == [kind |-> "none", v |-> NoInt]
PyRaise == [kind |-> "raise", v |-> NoInt]
PyInt(n) == [kind |-> "value", v |-> n]

\* _parse_time_to_seconds: only ValueError/IndexError are caught; .strip() on a
\* value that is no string raises AttributeError.
_parse_time_to_seconds(time_str) ==
    IF ~time_str.isStr THEN PyRaise
    ELSE LET parts == time_str.parts IN
         IF Len(parts) = 2
         THEN IF parts[1].num /\ parts[2].num
              THEN PyInt(parts[1].n * 60 + parts[2].n)
              ELSE PyNone
         ELSE IF Len(parts) = 3
         THEN IF parts[1].num /\ parts[2].num /\ parts[3].num
              THEN PyInt(parts[1].n * 3600 + parts[2].n * 60 + parts[3].n)
              ELSE PyNone
         ELSE PyNone

\* km_splits_json texts: not JSON at all, JSON that is no list, or a list of entries
JsonInvalid == [kind |-> "invalid", items |-> <<>>]
JsonScalar == [kind |-> "scalar", items |-> <<>>]
JsonList(items) == [kind |-> "list", items |-> items]

\* sorted(splits, key=kilometer): stable insertion sort
RECURSIVE InsertByKm(_, _)
InsertByKm(e, s) ==
    IF s = <<>> THEN <<e>>
    ELSE IF Head(s).kilometer <= e.kilometer
         THEN <<Head(s)>> \o InsertByKm(e, Tail(s))
         ELSE <<e>> \o s

RECURSIVE SortedSplits(_)
SortedSplits(s) ==
    IF s = <<>> THEN <<>>
    ELSE InsertByKm(s[Len(s)], SortedSplits(SubSeq(s, 1, Len(s) - 1)))

\* the loop that converts cumulative times: stops at the first entry that does
\* not parse (return None) or whose parse raises
RECURSIVE CumulativeSeconds(_, _)
CumulativeSeconds(sorted_splits, acc) ==
    IF sorted_splits = <<>> THEN [kind |-> "value", secs |-> acc]
    ELSE LET secs == _parse_time_to_seconds(Head(sorted_splits).time) IN
         IF secs.kind = "raise" THEN [kind |-> "raise", secs |-> <<>>]
         ELSE IF secs.kind = "none" THEN [kind |-> "none", secs |-> <<>>]
         ELSE CumulativeSeconds(Tail(sorted_splits), Append(acc, secs.v))

\* the window loop: start_index is 0-based as in the code
RECURSIVE BestWindow(_, _, _, _)
BestWindow(cumulative_seconds, target_km, start_index, best_time) ==
    IF start_index > Len(cumulative_seconds) - target_km THEN best_time
    ELSE LET end_index == start_index + target_km - 1
             window_time ==
                 IF start_index = 0
                 THEN cumulative_seconds[end_index + 1]
                 ELSE cumulative_seconds[end_index + 1] - cumulative_seconds[start_index]
             best ==
                 IF window_time > 0 /\ (best_time = NoInt \/ window_time < best_time)
                 THEN window_time
                 ELSE best_time
         IN BestWindow(cumulative_seconds, target_km, start_index + 1, best)

_fastest_consecutive_time(km_splits_json, target_km) ==
    IF km_splits_json.kind = "invalid" THEN PyNone
    ELSE IF km_splits_json.kind = "scalar" THEN PyRaise
    ELSE LET splits == km_splits_json.items IN
         IF Len(splits) < target_km THEN PyNone
         ELSE LET cum == CumulativeSeconds(SortedSplits(splits), <<>>) IN
              IF cum.kind = "raise" THEN PyRaise
              ELSE IF cum.kind = "none" THEN PyNone
              ELSE IF Len(cum.secs) < target_km THEN PyNone
              ELSE LET best_time == BestWindow(cum.secs, target_km, 0, NoInt) IN
                   IF best_time = NoInt THEN PyNone ELSE PyInt(best_time)

----------------------------------------------------------------------------
(* Streak: update_streak *)

NoStreak == [exists |-> FALSE, current |-> 0, longest |-> 0,
             last |-> NoDate, start |-> NoDate]

\* update_streak with the broken-streak test relaxed: any later day extends the streak
update_streak_anygap(streak, run_date) ==
    LET run_date_str == IsoFormat(run_date) IN
    IF ~streak.exists
    THEN [exists |-> TRUE, current |-> 1, longest |-> 1,
          last |-> run_date_str, start |-> run_date_str]
    ELSE IF streak.last = run_date_str THEN streak
    ELSE LET days == run_date - FromIsoFormat(streak.last)
             current == IF days >= 1 THEN streak.current + 1 ELSE 1
         IN [exists |-> TRUE,
             current |-> current,
             longest |-> IF current > streak.longest THEN current ELSE streak.longest,
             last |-> run_date_str,
             start |-> IF days >= 1 THEN streak.start ELSE run_date_str]

update_streak(streak, run_date) ==
    LET run_date_str == IsoFormat(run_date) IN
    IF ~streak.exists
    THEN [exists |-> TRUE, current |-> 1, longest |-> 1,
          last |-> run_date_str, start |-> run_date_str]
    ELSE IF streak.last = run_date_str THEN streak
    ELSE LET has_last == streak.last # NoDate
             days == IF has_last THEN run_date - FromIsoFormat(streak.last) ELSE 0
             current ==
                 IF has_last /\ days = 1 THEN streak.current + 1
                 ELSE IF has_last /\ days = 0 THEN streak.current
                 ELSE 1
             start ==
                 IF has_last /\ (days = 1 \/ days = 0) THEN streak.start
                 ELSE run_date_str
         IN [exists |-> TRUE,
             current |-> current,
             longest |-> IF current > streak.longest THEN current ELSE streak.longest,
             last |-> run_date_str,
             start |-> start]

----------------------------------------------------------------------------
(* States shared by the specifications: an empty store, no request in flight *)

Procs == {"p1", "p2"}
RunIds == {"r1", "r2", "r3"}
Categories == <<"5K", "10K", "HM", "FM", "50K">>
CategorySet == {Categories[i] : i \in 1..Len(Categories)}

\* DISTANCE_CATEGORIES
DISTANCE_CATEGORIES(category) ==
    CASE category = "5K" -> 5
      [] category = "10K" -> 10
      [] category = "HM" -> 21
      [] category = "FM" -> 42
      [] category = "50K" -> 50

NoRun == [exists |-> FALSE, user_id |-> "", completed_at |-> 0, distance_km |-> 0,
          km_splits_json |-> JsonInvalid, has_splits |-> FALSE,
          data_source |-> "", shoe_id |-> "", is_leaderboard_eligible |-> FALSE]
NoPb == [exists |-> FALSE, time_seconds |-> NoInt, run_id |-> ""]
NoResp == [returned |-> FALSE]
Pending == [kind |-> "pending", v |-> NoInt]

IoIdle ==
    /\ inp = [none |-> TRUE]
    /\ out = Pending

ReqIdle ==
    /\ pc = [p \in Procs |-> "idle"]
    /\ req = [p \in Procs |-> [none |-> TRUE]]
    /\ loc = [p \in Procs |-> [none |-> TRUE]]
    /\ sess = [p \in Procs |-> [none |-> TRUE]]
    /\ resp = [p \in Procs |-> NoResp]
    /\ hist = <<>>

DefaultUsers == [u \in Users |-> [opt_in |-> TRUE, gender |-> "male", dob |-> NoDate]]

StoreEmpty ==
    /\ users = DefaultUsers
    /\ runs = [r \in RunIds |-> NoRun]
    /\ pbs = [k \in Users \X CategorySet |-> NoPb]
    /\ streaks = [u \in Users |-> NoStreak]
    /\ achRows = <<>>
    /\ participations = <<>>
    /\ registrations = <<>>
    /\ shoes = <<>>
    /\ activity = <<>>

----------------------------------------------------------------------------
(* SpecSplits: _fastest_consecutive_time on bounded split tables *)

Targets == {1, 2, 5}

MinSec(m) == TimeStr(<<Num(m), Num(0)>>)

\* "5:00" .. "25:00", "0:05:00", a string int() rejects, and a JSON number
TimeChoices ==
    {MinSec(5), MinSec(10), MinSec(15), MinSec(20), MinSec(25),
     TimeStr(<<Num(0), Num(5), Num(0)>>),
     TimeStr(<<NotNum, Num(0)>>),
     TimeNonStr}

\* the table whose entry for kilometre k has time series[k], listed in
\* kilometre order or in reverse
SplitTable(series, reversed) ==
    LET n == Len(series)
        km(i) == IF reversed THEN n + 1 - i ELSE i
    IN JsonList([i \in 1..n |-> [kilometer |-> km(i), time |-> series[km(i)]]])

JsonOfKind(kind, series, reversed) ==
    IF kind = "list" THEN SplitTable(series, reversed)
    ELSE IF kind = "scalar" THEN JsonScalar ELSE JsonInvalid

\* the text handed to the extractor in the current state
SplitInput == JsonOfKind(inp.kind, inp.series, inp.reversed)

InitSplits ==
    /\ StoreEmpty
    /\ ReqIdle
    /\ inp \in [kind : {"list", "scalar", "invalid"}, series : {<<>>},
                reversed : BOOLEAN, target : Targets]
    /\ inp.kind # "list" => ~inp.reversed
    /\ out = Pending

\* the client records one more kilometre split
AddSplit(t) ==
    /\ out = Pending
    /\ inp.kind = "list"
    /\ Len(inp.series) < MaxSplits
    /\ inp' = [inp EXCEPT !.series = Append(@, t)]
    /\ UNCHANGED <<storeVars, reqVars, out>>

ExtractSplit ==
    /\ out = Pending
    /\ out' = _fastest_consecutive_time(SplitInput, inp.target)
    /\ UNCHANGED <<storeVars, reqVars, inp>>

NextSplits ==
    \/ \E t \in TimeChoices : AddSplit(t)
    \/ ExtractSplit

SpecSplits == InitSplits /\ [][NextSplits]_vars

----------------------------------------------------------------------------
(* SpecStreak: update_streak applied to the dates of one user's runs, from no row *)

StreakUser == "u1"

InitStreak ==
    /\ StoreEmpty
    /\ ReqIdle
    /\ inp = [dates |-> <<>>, prev |-> NoStreak]
    /\ out = Pending

StreakRun(d) ==
    /\ Len(inp.dates) < MaxStreakRuns
    /\ LET row == update_streak(streaks[StreakUser], d) IN
         /\ streaks' = [streaks EXCEPT ![StreakUser] = row]
         /\ out' = PyInt(row.current)
    /\ inp' = [dates |-> Append(inp.dates, d), prev |-> streaks[StreakUser]]
    /\ UNCHANGED <<users, runs, pbs, achRows, participations, registrations,
                   shoes, activity, reqVars>>

NextStreak == \E d \in 0..MaxDay : StreakRun(d)

SpecStreak == InitStreak /\ [][NextStreak]_vars

----------------------------------------------------------------------------
(* Leaderboards: _age_group_filter, get_yearly_distance_leaderboard,
   get_best_time_leaderboard *)

NoFilter == "none"

\* date.today() of the leaderboard queries
Today == <<2025, 1, 1>>

\* AGE_GROUPS
AGE_GROUPS(age_group) ==
    CASE age_group = "18-29" -> <<18, 29>>
      [] age_group = "30-39" -> <<30, 39>>
      [] age_group = "40-49" -> <<40, 49>>
      [] age_group = "50-59" -> <<50, 59>>
      [] age_group = "60+" -> <<60, 200>>

AgeGroupNames == {"18-29", "30-39", "40-49", "50-59", "60+"}

\* comparison of two ISO date strings "YYYY-MM-DD"
IsoLeq(a, b) ==
    \/ a[1] < b[1]
    \/ a[1] = b[1] /\ a[2] < b[2]
    \/ a[1] = b[1] /\ a[2] = b[2] /\ a[3] <= b[3]

\* _age_group_filter applied to one user row; an unknown group filters nothing
_age_group_filter(age_group, user_row) ==
    IF age_group \notin AgeGroupNames THEN TRUE
    ELSE LET low == AGE_GROUPS(age_group)[1]
             high == AGE_GROUPS(age_group)[2]
             earliest_dob == <<Today[1] - high - 1, Today[2], Today[3]>>
             latest_dob == <<Today[1] - low, Today[2], Today[3]>>
         IN /\ user_row.dob # NoDate
            /\ IsoLeq(earliest_dob, user_row.dob)
            /\ IsoLeq(user_row.dob, latest_dob)

\* the gender and age-group conditions appended to base_filters
DemographicFilters(u, gender, age_group) ==
    /\ (gender # NoFilter => users[u].gender = gender)
    /\ (age_group # NoFilter => _age_group_filter(age_group, users[u]))

RECURSIVE SumOver(_, _)
SumOver(S, f) ==
    IF S = {} THEN 0
    ELSE LET x == CHOOSE y \in S : TRUE IN f[x] + SumOver(S \ {x}, f)

\* the rows of one user that the yearly queries sum: eligible runs completed in the year
YearRuns(u, year) ==
    {r \in RunIds : /\ runs[r].exists
                    /\ runs[r].user_id = u
                    /\ runs[r].is_leaderboard_eligible
                    /\ YearOf(runs[r].completed_at) = year}

\* func.sum(Run.distance_km) over those rows (SQL NULL, here NoInt, over no row)
YearTotal(u, year) ==
    IF YearRuns(u, year) = {} THEN NoInt
    ELSE SumOver(YearRuns(u, year), [r \in RunIds |-> runs[r].distance_km])

\* every order a query may return the rows of S in under ORDER BY key (ascending)
OrdersBy(S, key) ==
    {s \in [1..Cardinality(S) -> S] :
        /\ \A i, j \in 1..Cardinality(S) : i # j => s[i] # s[j]
        /\ \A i, j \in 1..Cardinality(S) : i < j => key[s[i]] <= key[s[j]]}

\* .limit(limit).offset(offset), then the enumerate() loop that numbers the rows
PageEntries(ordered, value, limit, offset) ==
    LET last == IF offset + limit < Len(ordered) THEN offset + limit ELSE Len(ordered)
        page == SubSeq(ordered, offset + 1, last)
    IN [idx \in 1..Len(page) |->
            [rank |-> offset + idx, user_id |-> page[idx], value |-> value[page[idx]]]]

\* rank_q of the yearly query counting sums that reach user_total, not only exceed it
YearlyUsersAhead_nonstrict(year, user_total) ==
    Cardinality({v \in Users : /\ users[v].opt_in
                               /\ YearRuns(v, year) # {}
                               /\ YearTotal(v, year) >= user_total})

\* rank_q of the yearly query: opted-in users whose sum exceeds user_total
YearlyUsersAhead(year, user_total) ==
    Cardinality({v \in Users : /\ users[v].opt_in
                               /\ YearRuns(v, year) # {}
                               /\ YearTotal(v, year) > user_total})

YearlyRanked_optedIn(user_id, user_total) ==
    users[user_id].opt_in /\ user_total # NoInt /\ user_total # 0 /\ user_total > 0

\* get_yearly_distance_leaderboard: `if user_total and user_total > 0`
YearlyRanked(user_id, user_total) ==
    user_total # NoInt /\ user_total # 0 /\ user_total > 0

\* get_yearly_distance_leaderboard: the set of responses the query may return
get_yearly_distance_leaderboard(user_id, year, limit, offset, gender, age_group) ==
    LET listed == {v \in Users : /\ YearRuns(v, year) # {}
                                 /\ users[v].opt_in
                                 /\ DemographicFilters(v, gender, age_group)}
        total_distance == [v \in Users |-> YearTotal(v, year)]
        total_participants == Cardinality(listed)
        user_total == YearTotal(user_id, year)
        ranked == YearlyRanked(user_id, user_total)
    IN {[kind |-> "response",
         entries |-> PageEntries(ordered, total_distance, limit, offset),
         your_rank |-> IF ranked THEN YearlyUsersAhead(year, user_total) + 1 ELSE NoInt,
         your_value |-> IF ranked THEN user_total ELSE NoInt,
         total_participants |-> total_participants] :
           ordered \in OrdersBy(listed, [v \in Users |-> 0 - total_distance[v]])}

\* rank_q of the best-time query without the opt-in condition
BestTimeUsersAhead_anyone(category, user_time) ==
    Cardinality({v \in Users : /\ pbs[<<v, category>>].exists
                               /\ pbs[<<v, category>>].time_seconds < user_time})

\* rank_q of the best-time query: opted-in rows of the category faster than user_time
BestTimeUsersAhead(category, user_time) ==
    Cardinality({v \in Users : /\ pbs[<<v, category>>].exists
                               /\ pbs[<<v, category>>].time_seconds < user_time
                               /\ users[v].opt_in})

\* get_best_time_leaderboard: the set of responses the query may return
get_best_time_leaderboard(user_id, category, limit, offset, gender, age_group) ==
    LET listed == {v \in Users : /\ pbs[<<v, category>>].exists
                                 /\ users[v].opt_in
                                 /\ DemographicFilters(v, gender, age_group)}
        time_seconds == [v \in Users |-> pbs[<<v, category>>].time_seconds]
        total_participants == Cardinality(listed)
        user_time == IF pbs[<<user_id, category>>].exists
                     THEN pbs[<<user_id, category>>].time_seconds ELSE NoInt
        ranked == user_time # NoInt /\ user_time # 0
    IN {[kind |-> "response",
         entries |-> PageEntries(ordered, time_seconds, limit, offset),
         your_rank |-> IF ranked THEN BestTimeUsersAhead(category, user_time) + 1
                       ELSE NoInt,
         your_value |-> IF ranked THEN user_time ELSE NoInt,
         total_participants |-> total_participants] :
           ordered \in OrdersBy(listed, time_seconds)}

----------------------------------------------------------------------------
(* SpecBestTime, SpecYearly: one leaderboard query against a stored state *)

\* u1 a man of 24, u2 a woman of 45, u3 a man of 45 (on Today)
Demographics(u) ==
    CASE u = "u1" -> [gender |-> "male", dob |-> <<2000, 6, 15>>]
      [] u = "u2" -> [gender |-> "female", dob |-> <<1979, 6, 15>>]
      [] u = "u3" -> [gender |-> "male", dob |-> <<1979, 6, 15>>]

UsersWithOptIn(opt) ==
    [u \in Users |-> [opt_in |-> opt[u], gender |-> Demographics(u).gender,
                      dob |-> Demographics(u).dob]]

PbTimes == {NoInt, 1400, 1500, 1600}
GenderFilters == {NoFilter, "male"}
AgeGroupFilters == {NoFilter, "18-29"}

QueryShapes ==
    [limit : 1..MaxLimit, offset : 0..MaxLimit, gender : GenderFilters,
     age_group : AgeGroupFilters]

InitBestTime ==
    /\ \E opt \in [Users -> BOOLEAN] : users = UsersWithOptIn(opt)
    /\ \E t \in [Users -> PbTimes] :
         pbs = [k \in Users \X CategorySet |->
                  IF k[2] = "5K" /\ t[k[1]] # NoInt
                  THEN [exists |-> TRUE, time_seconds |-> t[k[1]], run_id |-> "r1"]
                  ELSE IF k[2] = "10K" /\ k[1] = "u2"
                  THEN [exists |-> TRUE, time_seconds |-> 1400, run_id |-> "r2"]
                  ELSE NoPb]
    /\ runs = [r \in RunIds |-> NoRun]
    /\ streaks = [u \in Users |-> NoStreak]
    /\ achRows = <<>> /\ participations = <<>> /\ registrations = <<>>
    /\ shoes = <<>> /\ activity = <<>>
    /\ ReqIdle
    /\ IoIdle

QueryBestTime(user_id, category, q) ==
    /\ out = Pending
    /\ inp' = [user_id |-> user_id, category |-> category, limit |-> q.limit,
               offset |-> q.offset, gender |-> q.gender, age_group |-> q.age_group]
    /\ out' \in get_best_time_leaderboard(user_id, category, q.limit, q.offset,
                                          q.gender, q.age_group)
    /\ UNCHANGED <<storeVars, reqVars>>

NextBestTime ==
    \E user_id \in Users, category \in {"5K", "10K"}, q \in QueryShapes :
        QueryBestTime(user_id, category, q)

SpecBestTime == InitBestTime /\ [][NextBestTime]_vars

YearDays == {3, 4}
YearDistances == {40, 80}

LbRun(u, day, dist, eligible) ==
    [NoRun EXCEPT !.exists = TRUE, !.user_id = u, !.completed_at = day,
                  !.distance_km = dist, !.is_leaderboard_eligible = eligible,
                  !.data_source = IF eligible THEN "bluetooth_ftms" ELSE "manual"]

InitYearly ==
    /\ \E opt \in [Users -> BOOLEAN] : users = UsersWithOptIn(opt)
    /\ \E o \in [RunIds -> Users], km \in [RunIds -> YearDistances],
          day \in YearDays, eligible \in BOOLEAN, day2 \in YearDays :
         runs = [r \in RunIds |->
                   LbRun(o[r], IF r = "r1" THEN 4 ELSE IF r = "r2" THEN day2 ELSE day,
                         km[r], IF r = "r3" THEN eligible ELSE TRUE)]
    /\ pbs = [k \in Users \X CategorySet |-> NoPb]
    /\ streaks = [u \in Users |-> NoStreak]
    /\ achRows = <<>> /\ participations = <<>> /\ registrations = <<>>
    /\ shoes = <<>> /\ activity = <<>>
    /\ ReqIdle
    /\ IoIdle

QueryYearly(user_id, year, q) ==
    /\ out = Pending
    /\ inp' = [user_id |-> user_id, year |-> year, limit |-> q.limit,
               offset |-> q.offset, gender |-> q.gender, age_group |-> q.age_group]
    /\ out' \in get_yearly_distance_leaderboard(user_id, year, q.limit, q.offset,
                                                q.gender, q.age_group)
    /\ UNCHANGED <<storeVars, reqVars>>

NextYearly ==
    \E user_id \in Users, year \in {2024, 2025}, q \in QueryShapes :
        QueryYearly(user_id, year, q)

SpecYearly == InitYearly /\ [][NextYearly]_vars

----------------------------------------------------------------------------
(* Claims about the pure functions *)

SetMin(S) == CHOOSE x \in S : \A y \in S : x <= y

\* what the claim calls a time that parses, and its value in seconds
ClaimParses(t) ==
    /\ t.isStr
    /\ Len(t.parts) \in {2, 3}
    /\ \A i \in 1..Len(t.parts) : t.parts[i].num

ClaimSeconds(t) ==
    IF Len(t.parts) = 2 THEN t.parts[1].n * 60 + t.parts[2].n
    ELSE t.parts[1].n * 3600 + t.parts[2].n * 60 + t.parts[3].n

\* the claim's result for the kilometre-ordered series and a target
ClaimFastest(series, target) ==
    IF Len(series) < target \/ \E i \in 1..Len(series) : ~ClaimParses(series[i])
    THEN PyNone
    ELSE LET cumulative == [i \in 1..Len(series) |-> ClaimSeconds(series[i])]
             window(e) == IF e = target THEN cumulative[e]
                          ELSE cumulative[e] - cumulative[e - target]
             times == {w \in {window(e) : e \in target..Len(series)} : w > 0}
         IN IF times = {} THEN PyNone ELSE PyInt(SetMin(times))

ExampleSeries == <<MinSec(5), MinSec(10), MinSec(15), MinSec(20), MinSec(25)>>

\* C10: for every list of per-kilometre cumulative times and every target,
\* _fastest_consecutive_time returns None when there are fewer than target
\* entries or some entry's time fails to parse, and otherwise the minimum of the
\* positive times of the windows of target consecutive kilometres; for
\* [300, 600, 900, 1200, 1500] and target 5 it returns 1500.
C10_SplitTimingExtraction ==
    (out # Pending /\ inp.kind = "list") =>
        /\ out = ClaimFastest(inp.series, inp.target)
        /\ (inp.series = ExampleSeries /\ inp.target = 5) => out = PyInt(1500)

\* the same statement for tables all of whose times are JSON strings
SplitTimingOfStrings ==
    (out # Pending /\ inp.kind = "list"
       /\ \A i \in 1..Len(inp.series) : inp.series[i].isStr) =>
        out = ClaimFastest(inp.series, inp.target)

\* the transition the claim specifies for a stored streak and a run date d
ClaimStreakNext(prev, d) ==
    IF ~prev.exists
    THEN [exists |-> TRUE, current |-> 1, longest |-> 1,
          last |-> IsoFormat(d), start |-> IsoFormat(d)]
    ELSE IF IsoFormat(d) = prev.last THEN prev
    ELSE IF d = FromIsoFormat(prev.last) + 1
    THEN [prev EXCEPT !.current = prev.current + 1,
                      !.longest = IF prev.longest >= prev.current + 1
                                  THEN prev.longest ELSE prev.current + 1,
                      !.last = IsoFormat(d)]
    ELSE [prev EXCEPT !.current = 1, !.start = IsoFormat(d), !.last = IsoFormat(d)]

----------------------------------------------------------------------------
(* Claims about the leaderboards *)

HasPb(u, category) == pbs[<<u, category>>].exists
PbTime(u, category) == pbs[<<u, category>>].time_seconds

\* the other opted-in users whose personal best in the category is strictly lower
FasterOptedIn(u, category) ==
    {v \in Users \ {u} : /\ users[v].opt_in
                         /\ HasPb(v, category)
                         /\ PbTime(v, category) < PbTime(u, category)}

\* C5: in get_best_time_leaderboard, your_rank is 1 + the number of other
\* opted-in users whose personal best in the category is strictly lower than the
\* querying user's own; a user holding the single fastest time among opted-in
\* users receives your_rank = 1, whatever limit and offset are.
C5_BestTimeRank ==
    (out.kind = "response" /\ HasPb(inp.user_id, inp.category)) =>
        /\ out.your_rank = 1 + Cardinality(FasterOptedIn(inp.user_id, inp.category))
        /\ (/\ users[inp.user_id].opt_in
            /\ \A v \in Users \ {inp.user_id} :
                 (users[v].opt_in /\ HasPb(v, inp.category)) =>
                     PbTime(v, inp.category) > PbTime(inp.user_id, inp.category))
           => out.your_rank = 1

\* a query from the second page whose user is behind one opted-in user and
\* behind a faster user who has not opted in
C5_Witness ==
    /\ out.kind = "response"
    /\ HasPb(inp.user_id, inp.category)
    /\ out.your_rank = 2
    /\ inp.offset = 1
    /\ \E v \in Users : /\ ~users[v].opt_in
                        /\ HasPb(v, inp.category)
                        /\ PbTime(v, inp.category) < PbTime(inp.user_id, inp.category)

\* the summed distance of a user's leaderboard-eligible runs completed in the year
ClaimYearSum(u, year) ==
    SumOver({r \in RunIds : /\ runs[r].exists /\ runs[r].user_id = u
                            /\ runs[r].data_source = "bluetooth_ftms"
                            /\ IsoFormat(runs[r].completed_at)[1] = year},
            [r \in RunIds |-> runs[r].distance_km])

FartherOptedIn(u, year) ==
    {v \in Users \ {u} : users[v].opt_in /\ ClaimYearSum(v, year) > ClaimYearSum(u, year)}

\* users A (120 km) and B (80 km) are opted in and no other opted-in user ran
YearlyScenario(A, B, year) ==
    /\ A # B
    /\ users[A].opt_in /\ users[B].opt_in
    /\ ClaimYearSum(A, year) = 120
    /\ ClaimYearSum(B, year) = 80
    /\ \A v \in Users \ {A, B} : ~users[v].opt_in \/ ClaimYearSum(v, year) = 0

----------------------------------------------------------------------------
(* The sync pipeline: reference data and the payloads the clients send *)

SyncUsers == {"u1", "u2"}
ShoeIds == {"s1", "s2"}
NoShoe == ""
Challenges == {"c1", "c2"}
Events == {"e1", "e2"}

\* challenges rows (read-only for the pipeline)
ChallengeRow(c) ==
    CASE c = "c1" -> [challenge_type |-> "monthly_distance", distance_category |-> "",
                      starts_at |-> 0, ends_at |-> 1]
      [] c = "c2" -> [challenge_type |-> "weekly_race", distance_category |-> "5K",
                      starts_at |-> 0, ends_at |-> 3]

\* events rows (read-only for the pipeline)
EventRow(e) ==
    CASE e = "e1" -> [event_type |-> "race", distance_km |-> 5,
                      starts_at |-> 0, ends_at |-> 3]
      [] e = "e2" -> [event_type |-> "group_run", distance_km |-> 0,
                      starts_at |-> 1, ends_at |-> 3]

\* achievement_definitions rows kept by the model, in sort_order
\* (ACHIEVEMENT_DEFINITIONS, PERF_CATEGORY_MAP)
AchievementDefinitions ==
    << [id |-> "distance_100km", category |-> "distance", threshold |-> 100,
        pb_category |-> ""],
       [id |-> "streak_7", category |-> "streak", threshold |-> 7, pb_category |-> ""],
       [id |-> "perf_5k_sub25", category |-> "performance", threshold |-> 1500,
        pb_category |-> "5K"],
       [id |-> "milestone_first_run", category |-> "milestone", threshold |-> 0,
        pb_category |-> ""],
       [id |-> "milestone_first_5k", category |-> "milestone", threshold |-> 5,
        pb_category |-> ""] >>

\* five cumulative splits, one every `pace` minutes: "5:00" .. "25:00" is 1500 s
Series(sec) ==
    [k \in 1..5 |-> [kilometer |-> k,
                     time |-> TimeStr(<<Num((k * sec) \div 60), Num((k * sec) % 60)>>)]]

\* the same table with a JSON number as the time of the last kilometre
SeriesBadTime ==
    [k \in 1..5 |-> [kilometer |-> k,
                     time |-> IF k = 5 THEN TimeNonStr ELSE Series(300)[k].time]]

\* the day a run was completed; the clients agree on it
RunDay(id) == CASE id = "r1" -> 0 [] id = "r2" -> 1 [] id = "r3" -> 3

\* RunSyncPayload: what a client may send for run `id`
Payload(id, v) ==
    CASE v = "slow" ->
           [id |-> id, completed_at |-> RunDay(id), distance_km |-> 5,
            has_splits |-> TRUE, km_splits_json |-> JsonList(Series(300)),
            data_source |-> "bluetooth_ftms", shoe_id |-> "s1"]
      [] v = "fast" ->
           [id |-> id, completed_at |-> RunDay(id), distance_km |-> 50,
            has_splits |-> TRUE, km_splits_json |-> JsonList(Series(280)),
            data_source |-> "bluetooth_ftms", shoe_id |-> NoShoe]
      [] v = "manual" ->
           [id |-> id, completed_at |-> RunDay(id), distance_km |-> 50,
            has_splits |-> TRUE, km_splits_json |-> JsonList(Series(280)),
            data_source |-> "manual", shoe_id |-> "s2"]
      [] v = "bad" ->
           [id |-> id, completed_at |-> RunDay(id), distance_km |-> 5,
            has_splits |-> TRUE, km_splits_json |-> JsonList(SeriesBadTime),
            data_source |-> "bluetooth_ftms", shoe_id |-> "s1"]
      [] v = "jog" ->
           [id |-> id, completed_at |-> RunDay(id), distance_km |-> 5,
            has_splits |-> TRUE, km_splits_json |-> JsonList(Series(320)),
            data_source |-> "bluetooth_ftms", shoe_id |-> NoShoe]

\* the variants of each run held by the device that sends request p
VariantsOf(p, id) ==
    IF p = "p1"
    THEN CASE id = "r1" -> {"slow"}
           [] id = "r2" -> {"fast", "manual"}
           [] id = "r3" -> {"bad"}
    ELSE CASE id = "r1" -> {"fast"}
           [] id = "r2" -> {"fast"}
           [] id = "r3" -> {}

NoParticipation == [exists |-> FALSE, best_run_id |-> "", best_time_seconds |-> NoInt,
                    total_distance_km |-> 0]
Joined == [NoParticipation EXCEPT !.exists = TRUE]
NoRegistration == [exists |-> FALSE, status |-> "", best_run_id |-> "",
                   best_time_seconds |-> NoInt, total_distance_km |-> 0]
Registered == [NoRegistration EXCEPT !.exists = TRUE, !.status = "registered"]

\* the rows present before the first sync: u1 has joined both challenges and
\* registered for both events, u2 has joined the monthly challenge; each owns a shoe
InitSync ==
    /\ users = DefaultUsers
    /\ runs = [r \in RunIds |-> NoRun]
    /\ pbs = [k \in Users \X CategorySet |-> NoPb]
    /\ streaks = [u \in Users |-> NoStreak]
    /\ achRows = <<>>
    /\ participations = [k \in Users \X Challenges |->
                           IF k[1] = "u1" \/ (k[1] = "u2" /\ k[2] = "c1")
                           THEN Joined ELSE NoParticipation]
    /\ registrations = [k \in Users \X Events |->
                          IF k[1] = "u1" THEN Registered ELSE NoRegistration]
    /\ shoes = [sh \in ShoeIds |->
                  [user_id |-> IF sh = "s1" THEN "u1" ELSE "u2", total_distance_km |-> 0]]
    /\ activity = <<>>

----------------------------------------------------------------------------
(* The ORM session of a request: identity map and pending rows *)

NotLoaded(row) == [loaded |-> FALSE, is_new |-> FALSE, base |-> row, cur |-> row]

NewSession ==
    [streak |-> NotLoaded(NoStreak),
     parts |-> [c \in Challenges |-> NotLoaded(NoParticipation)],
     regs |-> [e \in Events |-> NotLoaded(NoRegistration)],
     pbs |-> [c \in CategorySet |-> NotLoaded(NoPb)],
     logs |-> <<>>]

\* the UPDATE a flush emits for a dirty object sets the changed columns only
UpdateChanged(stored, obj) ==
    [col \in DOMAIN stored |->
        IF obj.cur[col] # obj.base[col] THEN obj.cur[col] ELSE stored[col]]

Flushed(obj) == [obj EXCEPT !.base = obj.cur, !.is_new = FALSE]

\* log_activity: db.add of an ActivityLog row
LogRow(user_id, activity_type, reference_id, data) ==
    [user_id |-> user_id, activity_type |-> activity_type,
     reference_id |-> reference_id, data |-> data]

\* Session.flush of request p (autoflush before a statement, or at commit): the
\* tables it writes and the session afterwards; ok is FALSE when the INSERT of a
\* new user_streaks row violates the unique user_id
Flush(p) ==
    LET u == req[p].user
        s == sess[p]
        conflict == s.streak.is_new /\ streaks[u].exists
    IN [ok |-> ~conflict,
        streaks |->
            IF ~s.streak.loaded \/ conflict THEN streaks
            ELSE IF s.streak.is_new THEN [streaks EXCEPT ![u] = s.streak.cur]
            ELSE [streaks EXCEPT ![u] = UpdateChanged(@, s.streak)],
        participations |->
            [k \in Users \X Challenges |->
                IF k[1] = u /\ s.parts[k[2]].loaded
                THEN UpdateChanged(participations[k], s.parts[k[2]])
                ELSE participations[k]],
        registrations |->
            [k \in Users \X Events |->
                IF k[1] = u /\ s.regs[k[2]].loaded
                THEN UpdateChanged(registrations[k], s.regs[k[2]])
                ELSE registrations[k]],
        activity |-> activity \o s.logs,
        sess |-> [s EXCEPT !.streak = Flushed(s.streak),
                           !.parts = [c \in Challenges |-> Flushed(s.parts[c])],
                           !.regs = [e \in Events |-> Flushed(s.regs[e])],
                           !.logs = <<>>]]

----------------------------------------------------------------------------
(* Spec: concurrent sync_runs requests, one action per database statement *)

MaxBatch == 2
MaxBatchOther == 1

\* the largest batch request p sends
BatchBound(p) == IF p = "p1" THEN MaxBatch ELSE MaxBatchOther

\* the users request p may be authenticated as
UsersOf(p) == IF p = "p1" THEN {"u1"} ELSE SyncUsers

NoLoc == [i |-> 0, synced_count |-> 0, all_newly_unlocked |-> <<>>, cat |-> 0,
          existing_ids |-> {}, todo |-> <<>>, after |-> "", newly_unlocked |-> <<>>]
NoHist == [trace |-> <<>>, inserted |-> {}]

Init ==
    /\ InitSync
    /\ pc = [p \in Procs |-> "idle"]
    /\ req = [p \in Procs |-> [user |-> "", runs |-> <<>>]]
    /\ loc = [p \in Procs |-> NoLoc]
    /\ sess = [p \in Procs |-> NewSession]
    /\ resp = [p \in Procs |-> NoResp]
    /\ hist = [p \in Procs |-> NoHist]
    /\ IoIdle

\* RunBatchSyncResponse
Response(synced_count, already_existed, newly_unlocked) ==
    [returned |-> TRUE, synced_count |-> synced_count,
     already_existed |-> already_existed, newly_unlocked |-> newly_unlocked]

\* the batches of at most n payloads
Payloads(p) == UNION {{Payload(id, v) : v \in VariantsOf(p, id)} : id \in RunIds}
Batches(p) == UNION {[1..k -> Payloads(p)] : k \in 0..BatchBound(p)}

\* the run being processed by request p
Cur(p) == req[p].runs[loc[p].i]

IsEligible_always(run_payload) == TRUE

\* sync_runs: is_eligible
IsEligible(run_payload) == run_payload.data_source = "bluetooth_ftms"

Traced(p, step, rc) ==
    [hist EXCEPT ![p].trace = Append(@, [step |-> step, i |-> loc[p].i, rc |-> rc])]

ApplyFlush(f) ==
    /\ streaks' = f.streaks
    /\ participations' = f.participations
    /\ registrations' = f.registrations
    /\ activity' = f.activity

\* an exception leaves sync_runs: no response, the rest of the batch is not processed
Raise(p) ==
    /\ pc' = [pc EXCEPT ![p] = "failed"]
    /\ sess' = [sess EXCEPT ![p] = NewSession]
    /\ UNCHANGED <<req, loc, resp>>

StepAfter_eventFirst(step) ==
    CASE step = "pb" -> "event"
      [] step = "event" -> "challenge"
      [] step = "challenge" -> "shoe"
      [] step = "shoe" -> "log"
      [] step = "log" -> "achievements"

\* sync_runs: the calls made for a newly inserted run, in the order of the loop body
StepAfter(step) ==
    CASE step = "pb" -> "challenge"
      [] step = "challenge" -> "event"
      [] step = "event" -> "shoe"
      [] step = "shoe" -> "log"
      [] step = "log" -> "achievements"

\* sync_runs, entry: an empty batch is answered at once
Start(p) ==
    /\ pc[p] = "idle"
    /\ \E u \in UsersOf(p) : \E b \in Batches(p) :
        /\ req' = [req EXCEPT ![p] = [user |-> u, runs |-> b]]
        /\ IF b = <<>>
           THEN /\ resp' = [resp EXCEPT ![p] = Response(0, 0, <<>>)]
                /\ pc' = [pc EXCEPT ![p] = "done"]
                /\ loc' = loc
           ELSE /\ resp' = resp
                /\ pc' = [pc EXCEPT ![p] = "insert"]
                /\ loc' = [loc EXCEPT ![p] = [NoLoc EXCEPT !.i = 1]]
    /\ UNCHANGED <<storeVars, sess, hist, inp, out>>

\* the runs row sync_runs builds from a payload.  The statement names shoe_id,
\* a column the Run model does not declare; the row is taken as the statement
\* gives it.
RunRow(user_id, run_payload) ==
    [exists |-> TRUE, user_id |-> user_id, completed_at |-> run_payload.completed_at,
     distance_km |-> run_payload.distance_km,
     km_splits_json |-> run_payload.km_splits_json,
     has_splits |-> run_payload.has_splits,
     data_source |-> run_payload.data_source, shoe_id |-> run_payload.shoe_id,
     is_leaderboard_eligible |-> IsEligible(run_payload)]

InsertRun_overwrite(table, id, row) ==
    [runs |-> [table EXCEPT ![id] = row], rowcount |-> IF table[id].exists THEN 0 ELSE 1]

\* pg_insert(Run) ... on_conflict_do_nothing(index_elements=["id"])
InsertRun(table, id, row) ==
    IF table[id].exists
    THEN [runs |-> table, rowcount |-> 0]
    ELSE [runs |-> [table EXCEPT ![id] = row], rowcount |-> 1]

\* where request p goes after the run it is on: the next payload or the response
NextRun(p, l) ==
    /\ loc' = [loc EXCEPT ![p] = [l EXCEPT !.i = @ + 1, !.cat = 0, !.todo = <<>>, !.after = "",
                                           !.newly_unlocked = <<>>, !.existing_ids = {}]]
    /\ pc' = [pc EXCEPT ![p] = IF l.i < Len(req[p].runs) THEN "insert" ELSE "respond"]

\* sync_runs, one pass of the loop up to `if result.rowcount > 0`
SyncInsert(p) ==
    /\ pc[p] = "insert"
    /\ LET f == Flush(p)
           run_payload == Cur(p)
           r == InsertRun(runs, run_payload.id, RunRow(req[p].user, run_payload))
       IN /\ f.ok
          /\ ApplyFlush(f)
          /\ sess' = [sess EXCEPT ![p] = f.sess]
          /\ runs' = r.runs
          /\ hist' = [Traced(p, "insert", r.rowcount) EXCEPT
                        ![p].inserted = IF ~runs[run_payload.id].exists
                                           /\ runs'[run_payload.id].exists
                                        THEN @ \cup {loc[p].i} ELSE @]
          /\ IF r.rowcount > 0
             THEN /\ loc' = [loc EXCEPT ![p].synced_count = @ + 1, ![p].cat = 1]
                  /\ pc' = [pc EXCEPT ![p] = "pb"]
             ELSE NextRun(p, loc[p])
    /\ UNCHANGED <<users, pbs, achRows, shoes, req, resp, inp, out>>

PbUpsert_unconditional(table, user_id, category, time_seconds, run_id) ==
    [pbs |-> [table EXCEPT ![<<user_id, category>>] =
                [exists |-> TRUE, time_seconds |-> time_seconds, run_id |-> run_id]],
     rowcount |-> 1]

PbUpsert_insertOnly(table, user_id, category, time_seconds, run_id) ==
    IF ~table[<<user_id, category>>].exists
    THEN [pbs |-> [table EXCEPT ![<<user_id, category>>] =
                     [exists |-> TRUE, time_seconds |-> time_seconds, run_id |-> run_id]],
          rowcount |-> 1]
    ELSE [pbs |-> table, rowcount |-> 0]

\* pg_insert(PersonalBest) ... on_conflict_do_update(where=time_seconds > new)
PbUpsert(table, user_id, category, time_seconds, run_id) ==
    LET old == table[<<user_id, category>>]
        new == [exists |-> TRUE, time_seconds |-> time_seconds, run_id |-> run_id]
    IN IF ~old.exists \/ old.time_seconds > time_seconds
       THEN [pbs |-> [table EXCEPT ![<<user_id, category>>] = new], rowcount |-> 1]
       ELSE [pbs |-> table, rowcount |-> 0]

\* the next category, from the k-th on, for which _fastest_consecutive_time
\* does not return None; Len(Categories) + 1 when there is none
RECURSIVE NextCategory(_, _)
NextCategory(km_splits_json, k) ==
    IF k > Len(Categories) THEN k
    ELSE IF _fastest_consecutive_time(km_splits_json, DISTANCE_CATEGORIES(Categories[k]))
              = PyNone
         THEN NextCategory(km_splits_json, k + 1)
         ELSE k

\* compute_personal_bests: the loop up to and including its next upsert
ComputePersonalBests(p) ==
    /\ pc[p] = "pb"
    /\ LET run_payload == Cur(p)
           k == NextCategory(run_payload.km_splits_json, loc[p].cat)
       IN IF ~IsEligible(run_payload) \/ ~run_payload.has_splits \/ k > Len(Categories)
          THEN /\ pc' = [pc EXCEPT ![p] = StepAfter("pb")]
               /\ hist' = Traced(p, "pb", NoInt)
               /\ UNCHANGED <<storeVars, req, loc, sess, resp>>
          ELSE LET t == _fastest_consecutive_time(run_payload.km_splits_json,
                                                  DISTANCE_CATEGORIES(Categories[k]))
                   f == Flush(p)
                   r == PbUpsert(pbs, req[p].user, Categories[k], t.v, run_payload.id)
               IN IF t = PyRaise
                  THEN /\ Raise(p)
                       /\ hist' = Traced(p, "pb", NoInt)
                       /\ UNCHANGED storeVars
                  ELSE /\ f.ok
                       /\ ApplyFlush(f)
                       /\ pbs' = r.pbs
                       /\ sess' = [sess EXCEPT ![p] =
                                     [f.sess EXCEPT !.logs =
                                        IF r.rowcount > 0
                                        THEN <<LogRow(req[p].user, "pb", run_payload.id,
                                                      <<Categories[k], t.v>>)>>
                                        ELSE <<>>]]
                       /\ loc' = [loc EXCEPT ![p].cat = k + 1]
                       /\ pc' = pc
                       /\ hist' = Traced(p, "pb", r.rowcount)
                       /\ UNCHANGED <<users, runs, achRows, shoes, req, resp>>
    /\ UNCHANGED <<inp, out>>

\* the object a SELECT of an entity returns: the session's own copy when the
\* identity map already holds the row, the stored row otherwise
Loaded(obj, row) ==
    IF obj.loaded THEN obj ELSE [loaded |-> TRUE, is_new |-> FALSE, base |-> row, cur |-> row]

InWindow(row, completed_at) == row.starts_at <= completed_at /\ row.ends_at >= completed_at

\* the body of both matching loops for a timed competition over target_km
BetterTime(standing, run_payload, target_km) ==
    LET t == _fastest_consecutive_time(run_payload.km_splits_json, target_km)
    IN IF run_payload.has_splits /\ t.kind = "value"
          /\ (standing.best_time_seconds = NoInt \/ t.v < standing.best_time_seconds)
       THEN [standing EXCEPT !.best_time_seconds = t.v, !.best_run_id = run_payload.id]
       ELSE standing

TimingRaises(run_payload, target_km) ==
    /\ run_payload.has_splits
    /\ _fastest_consecutive_time(run_payload.km_splits_json, target_km) = PyRaise

\* check_challenge_participation, loop body for one (participation, challenge)
ChallengeStanding(participation, challenge, run_payload) ==
    IF challenge.challenge_type = "weekly_race"
    THEN IF run_payload.distance_km < DISTANCE_CATEGORIES(challenge.distance_category)
         THEN participation
         ELSE BetterTime(participation, run_payload,
                         DISTANCE_CATEGORIES(challenge.distance_category))
    ELSE [participation EXCEPT !.total_distance_km = @ + run_payload.distance_km]

\* check_challenge_participation
CheckChallengeParticipation(p) ==
    /\ pc[p] = "challenge"
    /\ hist' = Traced(p, "challenge", NoInt)
    /\ LET run_payload == Cur(p)
           u == req[p].user
           f == Flush(p)
           selected == {c \in Challenges :
                          /\ f.participations[<<u, c>>].exists
                          /\ InWindow(ChallengeRow(c), run_payload.completed_at)}
           raises == \E c \in selected :
                        /\ ChallengeRow(c).challenge_type = "weekly_race"
                        /\ run_payload.distance_km >=
                              DISTANCE_CATEGORIES(ChallengeRow(c).distance_category)
                        /\ TimingRaises(run_payload,
                              DISTANCE_CATEGORIES(ChallengeRow(c).distance_category))
           object(c) == Loaded(f.sess.parts[c], f.participations[<<u, c>>])
       IN IF ~IsEligible(run_payload)
          THEN /\ pc' = [pc EXCEPT ![p] = StepAfter("challenge")]
               /\ UNCHANGED <<storeVars, req, loc, sess, resp>>
          ELSE /\ f.ok
               /\ ApplyFlush(f)
               /\ UNCHANGED <<users, runs, pbs, achRows, shoes>>
               /\ IF raises
                  THEN Raise(p)
                  ELSE /\ sess' = [sess EXCEPT ![p] =
                                     [f.sess EXCEPT !.parts =
                                        [c \in Challenges |->
                                           IF c \in selected
                                           THEN [object(c) EXCEPT !.cur =
                                                   ChallengeStanding(@, ChallengeRow(c),
                                                                     run_payload)]
                                           ELSE f.sess.parts[c]]]]
                       /\ pc' = [pc EXCEPT ![p] = StepAfter("challenge")]
                       /\ UNCHANGED <<req, loc, resp>>
    /\ UNCHANGED <<inp, out>>

\* check_event_participation, loop body for one (registration, event)
EventStanding(registration, event, run_payload) ==
    IF event.event_type = "race" \/ event.event_type = "virtual_race"
    THEN IF event.distance_km # 0 /\ run_payload.distance_km >= event.distance_km
         THEN BetterTime(registration, run_payload, event.distance_km)
         ELSE registration
    ELSE IF event.event_type = "group_run"
    THEN [registration EXCEPT !.total_distance_km = @ + run_payload.distance_km]
    ELSE registration

\* check_event_participation
CheckEventParticipation(p) ==
    /\ pc[p] = "event"
    /\ hist' = Traced(p, "event", NoInt)
    /\ LET run_payload == Cur(p)
           u == req[p].user
           f == Flush(p)
           selected == {e \in Events :
                          /\ f.registrations[<<u, e>>].exists
                          /\ f.registrations[<<u, e>>].status = "registered"
                          /\ InWindow(EventRow(e), run_payload.completed_at)}
           raises == \E e \in selected :
                        /\ EventRow(e).event_type \in {"race", "virtual_race"}
                        /\ EventRow(e).distance_km # 0
                        /\ run_payload.distance_km >= EventRow(e).distance_km
                        /\ TimingRaises(run_payload, EventRow(e).distance_km)
           object(e) == Loaded(f.sess.regs[e], f.registrations[<<u, e>>])
       IN IF ~IsEligible(run_payload)
          THEN /\ pc' = [pc EXCEPT ![p] = StepAfter("event")]
               /\ UNCHANGED <<storeVars, req, loc, sess, resp>>
          ELSE /\ f.ok
               /\ ApplyFlush(f)
               /\ UNCHANGED <<users, runs, pbs, achRows, shoes>>
               /\ IF raises
                  THEN Raise(p)
                  ELSE /\ sess' = [sess EXCEPT ![p] =
                                     [f.sess EXCEPT !.regs =
                                        [e \in Events |->
                                           IF e \in selected
                                           THEN [object(e) EXCEPT !.cur =
                                                   EventStanding(@, EventRow(e), run_payload)]
                                           ELSE f.sess.regs[e]]]]
                       /\ pc' = [pc EXCEPT ![p] = StepAfter("event")]
                       /\ UNCHANGED <<req, loc, resp>>
    /\ UNCHANGED <<inp, out>>

\* shoe_service.add_mileage: one UPDATE ... SET total_distance_km = total_distance_km + d
add_mileage_anyOwner(table, shoe_id, user_id, distance_km) ==
    [sh \in DOMAIN table |->
        IF sh = shoe_id
        THEN [table[sh] EXCEPT !.total_distance_km = @ + distance_km]
        ELSE table[sh]]

add_mileage(table, shoe_id, user_id, distance_km) ==
    [sh \in DOMAIN table |->
        IF sh = shoe_id /\ table[sh].user_id = user_id
        THEN [table[sh] EXCEPT !.total_distance_km = @ + distance_km]
        ELSE table[sh]]

\* sync_runs: `if run_payload.shoe_id: await shoe_add_mileage(...)`
ShoeAddMileage(p) ==
    /\ pc[p] = "shoe"
    /\ LET run_payload == Cur(p)
           f == Flush(p)
       IN IF run_payload.shoe_id = NoShoe
          THEN UNCHANGED <<storeVars, sess, hist>>
          ELSE /\ f.ok
               /\ ApplyFlush(f)
               /\ sess' = [sess EXCEPT ![p] = f.sess]
               /\ shoes' = add_mileage(shoes, run_payload.shoe_id, req[p].user,
                                       run_payload.distance_km)
               /\ hist' = Traced(p, "shoe", NoInt)
               /\ UNCHANGED <<users, runs, pbs, achRows>>
    /\ pc' = [pc EXCEPT ![p] = StepAfter("shoe")]
    /\ UNCHANGED <<req, loc, resp, inp, out>>

\* sync_runs: log_activity(db, user, "run", run id, ...)
LogRun(p) ==
    /\ pc[p] = "log"
    /\ sess' = [sess EXCEPT ![p].logs =
                  Append(@, LogRow(req[p].user, "run", Cur(p).id, Cur(p).distance_km))]
    /\ hist' = Traced(p, "log", NoInt)
    /\ pc' = [pc EXCEPT ![p] = StepAfter("log")]
    /\ UNCHANGED <<storeVars, req, loc, resp, inp, out>>

\* the ids of the definitions of `categories`, in sort_order, that are not in
\* existing_ids and that are in `qualifying`
Candidates(categories, existing_ids, qualifying) ==
    LET Test(defn) == /\ defn.category \in categories
                      /\ defn.id \notin existing_ids
                      /\ defn.id \in qualifying
        chosen == SelectSeq(AchievementDefinitions, Test)
    IN [k \in 1..Len(chosen) |-> chosen[k].id]

\* the rows of achievement_definitions
Definitions == {AchievementDefinitions[k] : k \in DOMAIN AchievementDefinitions}

\* the unlock attempts of one loop over the definitions, then the step after it
Attempt(p, l, attempts, after) ==
    /\ loc' = [loc EXCEPT ![p] = [l EXCEPT !.todo = attempts, !.after = after]]
    /\ pc' = [pc EXCEPT ![p] = IF attempts = <<>> THEN after ELSE "unlock"]

\* check_achievements_after_sync: the user's unlocked ids and the definitions
SelectExisting(p) ==
    /\ pc[p] = "achievements"
    /\ LET f == Flush(p)
       IN /\ f.ok
          /\ ApplyFlush(f)
          /\ sess' = [sess EXCEPT ![p] = f.sess]
          /\ loc' = [loc EXCEPT ![p].existing_ids =
                       {achRows[k].achievement_id :
                           k \in {j \in DOMAIN achRows : achRows[j].user_id = req[p].user}},
                                ![p].newly_unlocked = <<>>]
    /\ pc' = [pc EXCEPT ![p] = "distance"]
    /\ hist' = Traced(p, "achievements", NoInt)
    /\ UNCHANGED <<users, runs, pbs, achRows, shoes, req, resp, inp, out>>

\* func.sum(Run.distance_km) over the user's runs, or 0.0
LifetimeKm(u) ==
    SumOver({r \in RunIds : runs[r].exists /\ runs[r].user_id = u},
            [r \in RunIds |-> runs[r].distance_km])

\* check_achievements_after_sync, 1: lifetime distance
SelectDistance(p) ==
    /\ pc[p] = "distance"
    /\ LET f == Flush(p)
           lifetime_km == LifetimeKm(req[p].user)
           Far(defn) == lifetime_km >= defn.threshold
       IN /\ f.ok
          /\ ApplyFlush(f)
          /\ sess' = [sess EXCEPT ![p] = f.sess]
          /\ Attempt(p, loc[p],
                     Candidates({"distance"}, loc[p].existing_ids, {d.id : d \in {x \in Definitions : Far(x)}}), "streak")
    /\ hist' = Traced(p, "distance", NoInt)
    /\ UNCHANGED <<users, runs, pbs, achRows, shoes, req, resp, inp, out>>

_unlock_always(rows, user_id, achievement_id, run_id) ==
    [rows |-> Append(rows, [user_id |-> user_id, achievement_id |-> achievement_id,
                            run_id |-> run_id]),
     rowcount |-> 1]

\* _unlock: pg_insert(UserAchievement) ... on_conflict_do_nothing(uq_user_achievement)
_unlock(rows, user_id, achievement_id, run_id) ==
    IF \E k \in DOMAIN rows :
          rows[k].user_id = user_id /\ rows[k].achievement_id = achievement_id
    THEN [rows |-> rows, rowcount |-> 0]
    ELSE [rows |-> Append(rows, [user_id |-> user_id, achievement_id |-> achievement_id,
                                 run_id |-> run_id]),
          rowcount |-> 1]

\* check_achievements_after_sync: one `unlocked = await _unlock(...)` of a loop
Unlock(p) ==
    /\ pc[p] = "unlock"
    /\ loc[p].todo # <<>>
    /\ LET f == Flush(p)
           id == Head(loc[p].todo)
           r == _unlock(achRows, req[p].user, id, Cur(p).id)
       IN /\ f.ok
          /\ ApplyFlush(f)
          /\ sess' = [sess EXCEPT ![p] = f.sess]
          /\ achRows' = r.rows
          /\ hist' = Traced(p, "unlock", r.rowcount)
          /\ Attempt(p, [loc[p] EXCEPT !.newly_unlocked =
                                   IF r.rowcount > 0 THEN Append(@, id) ELSE @],
                     Tail(loc[p].todo), loc[p].after)
    /\ UNCHANGED <<users, runs, pbs, shoes, req, resp, inp, out>>

\* update_streak, called by check_achievements_after_sync
UpdateStreak(p) ==
    /\ pc[p] = "streak"
    /\ LET f == Flush(p)
           u == req[p].user
           found == f.sess.streak.loaded \/ f.streaks[u].exists
           object == IF found THEN Loaded(f.sess.streak, f.streaks[u])
                     ELSE [loaded |-> TRUE, is_new |-> TRUE, base |-> NoStreak,
                           cur |-> NoStreak]
       IN /\ f.ok
          /\ ApplyFlush(f)
          /\ sess' = [sess EXCEPT ![p] =
                        [f.sess EXCEPT !.streak =
                           [object EXCEPT !.cur = update_streak(@, Cur(p).completed_at)]]]
    /\ pc' = [pc EXCEPT ![p] = "longest"]
    /\ hist' = Traced(p, "streak", NoInt)
    /\ UNCHANGED <<users, runs, pbs, achRows, shoes, req, loc, resp, inp, out>>

\* check_achievements_after_sync, 2: the second SELECT of the streak row
SelectLongest(p) ==
    /\ pc[p] = "longest"
    /\ LET f == Flush(p)
           longest_streak == f.sess.streak.cur.longest
           Long(defn) == longest_streak >= defn.threshold
       IN /\ f.ok
          /\ ApplyFlush(f)
          /\ sess' = [sess EXCEPT ![p] = f.sess]
          /\ Attempt(p, loc[p],
                     Candidates({"streak"}, loc[p].existing_ids, {d.id : d \in {x \in Definitions : Long(x)}}), "performance")
    /\ hist' = Traced(p, "longest", NoInt)
    /\ UNCHANGED <<users, runs, pbs, achRows, shoes, req, resp, inp, out>>

\* check_achievements_after_sync, 3 and 4: the personal bests read as entities,
\* then the performance loop and the milestone loop
SelectPersonalBests(p) ==
    /\ pc[p] = "performance"
    /\ LET f == Flush(p)
           u == req[p].user
           object(c) == IF pbs[<<u, c>>].exists
                        THEN Loaded(f.sess.pbs[c], pbs[<<u, c>>])
                        ELSE f.sess.pbs[c]
           Fast(defn) == /\ defn.pb_category # ""
                         /\ object(defn.pb_category).loaded
                         /\ object(defn.pb_category).cur.time_seconds <= defn.threshold
           Single(defn) == defn.threshold = 0 \/ Cur(p).distance_km >= defn.threshold
       IN /\ f.ok
          /\ ApplyFlush(f)
          /\ sess' = [sess EXCEPT ![p] =
                        [f.sess EXCEPT !.pbs = [c \in CategorySet |-> object(c)]]]
          /\ Attempt(p, loc[p],
                     Candidates({"performance"}, loc[p].existing_ids, {d.id : d \in {x \in Definitions : Fast(x)}})
                        \o Candidates({"milestone"}, loc[p].existing_ids, {d.id : d \in {x \in Definitions : Single(x)}}),
                     "feed")
    /\ hist' = Traced(p, "performance", NoInt)
    /\ UNCHANGED <<users, runs, pbs, achRows, shoes, req, resp, inp, out>>

\* check_achievements_after_sync: an activity entry for each newly unlocked
\* achievement; sync_runs: all_newly_unlocked.extend(unlocked)
LogAchievements(p) ==
    /\ pc[p] = "feed"
    /\ LET unlocked == loc[p].newly_unlocked
       IN /\ sess' = [sess EXCEPT ![p].logs =
                        @ \o [k \in 1..Len(unlocked) |->
                                LogRow(req[p].user, "achievement", "", unlocked[k])]]
          /\ NextRun(p, [loc[p] EXCEPT !.all_newly_unlocked = @ \o unlocked])
    /\ hist' = Traced(p, "feed", NoInt)
    /\ UNCHANGED <<storeVars, req, resp, inp, out>>

AlreadyExisted_all(n, synced_count) == n

\* sync_runs: already_existed = len(request.runs) - synced_count
AlreadyExisted(n, synced_count) == n - synced_count

\* sync_runs: the summary it returns
Respond(p) ==
    /\ pc[p] = "respond"
    /\ resp' = [resp EXCEPT ![p] =
                  Response(loc[p].synced_count,
                           AlreadyExisted(Len(req[p].runs), loc[p].synced_count),
                           loc[p].all_newly_unlocked)]
    /\ pc' = [pc EXCEPT ![p] = "commit"]
    /\ UNCHANGED <<storeVars, req, loc, sess, hist, inp, out>>

\* the end of the request's session: what is pending is written
Commit(p) ==
    /\ pc[p] = "commit"
    /\ LET f == Flush(p)
       IN /\ f.ok
          /\ ApplyFlush(f)
          /\ sess' = [sess EXCEPT ![p] = f.sess]
    /\ pc' = [pc EXCEPT ![p] = "done"]
    /\ UNCHANGED <<users, runs, pbs, achRows, shoes, req, loc, resp, hist, inp, out>>

\* the statements of a request, each of which flushes the session first
Statements ==
    {"insert", "pb", "challenge", "event", "shoe", "achievements", "distance", "unlock",
     "streak", "longest", "performance", "commit"}

\* the flush before a statement fails: the INSERT of the request's new
\* user_streaks row meets the row another request has inserted meanwhile
FlushError(p) ==
    /\ pc[p] \in Statements
    /\ ~Flush(p).ok
    /\ Raise(p)
    /\ hist' = Traced(p, "flush", NoInt)
    /\ UNCHANGED <<storeVars, inp, out>>

Next ==
    \E p \in Procs :
        \/ Start(p)
        \/ SyncInsert(p)
        \/ ComputePersonalBests(p)
        \/ CheckChallengeParticipation(p)
        \/ CheckEventParticipation(p)
        \/ ShoeAddMileage(p)
        \/ LogRun(p)
        \/ SelectExisting(p)
        \/ SelectDistance(p)
        \/ Unlock(p)
        \/ UpdateStreak(p)
        \/ SelectLongest(p)
        \/ SelectPersonalBests(p)
        \/ LogAchievements(p)
        \/ Respond(p)
        \/ Commit(p)
        \/ FlushError(p)

Spec == Init /\ [][Next]_vars

----------------------------------------------------------------------------
(* Claims about the sync pipeline *)

Trace(p) == hist[p].trace
Ended(p) == pc[p] \in {"done", "failed"}
InFlight(p) == pc[p] \notin {"idle", "done", "failed"}

\* request p takes the step that finds its current payload's id already stored
Resyncs(p) ==
    /\ pc[p] = "insert"
    /\ runs[Cur(p).id].exists
    /\ Len(hist'[p].trace) > Len(hist[p].trace)

\* the payloads of request p whose insert reported no new row
PassedOver(p) == {k \in DOMAIN Trace(p) : Trace(p)[k].step = "insert" /\ Trace(p)[k].rc = 0}

C2_PbMonotonic ==
    [][\A k \in Users \X CategorySet :
          pbs[k].exists => pbs'[k].exists /\ pbs'[k].time_seconds <= pbs[k].time_seconds]_vars

\* two requests of one user are in flight and the upsert of one of them was
\* turned down because the other's faster time was already stored
C2_Witness ==
    /\ \A p \in Procs : InFlight(p) /\ req[p].user = "u1"
    /\ \E p \in Procs : \E k \in DOMAIN Trace(p) :
          /\ Trace(p)[k].step = "pb" /\ Trace(p)[k].rc = 0
          /\ pbs[<<"u1", "5K">>].time_seconds = 1400
          /\ runs[req[p].runs[Trace(p)[k].i].id].user_id = "u1"

\* C3: there is at most one user_achievements row per (user, achievement), and
\* the rows only grow: a row is never removed, replaced or created again
C3_UnlockAtMostOnce ==
    /\ [](\A i, j \in DOMAIN achRows :
            (/\ achRows[i].user_id = achRows[j].user_id
             /\ achRows[i].achievement_id = achRows[j].achievement_id) => i = j)
    /\ [][/\ Len(achRows') >= Len(achRows)
          /\ \A i \in DOMAIN achRows : achRows'[i] = achRows[i]]_vars

\* two requests of one user both found the achievement locked and both tried
\* to unlock it; the second attempt inserted nothing
C3_Witness ==
    \E p, q \in Procs :
        /\ p # q /\ req[p].user = req[q].user
        /\ \E k \in DOMAIN Trace(p) : Trace(p)[k].step = "unlock" /\ Trace(p)[k].rc = 0
        /\ \E k \in DOMAIN Trace(q) : Trace(q)[k].step = "unlock" /\ Trace(q)[k].rc = 1
        /\ Len(achRows) >= 1

\* C7: a request that has ended, also one in which a step after a run's insert
\* failed, has returned its summary and has stored every run of its batch
C7_FailureIsolation ==
    \A p \in Procs : Ended(p) =>
        /\ resp[p].returned
        /\ \A k \in DOMAIN req[p].runs : runs[req[p].runs[k].id].exists

TraceSteps ==
    {"insert", "pb", "challenge", "event", "shoe", "log", "achievements", "distance",
     "unlock", "streak", "longest", "performance", "feed", "flush"}

\* the place of a step in the order the claim states; the steps made inside
\* check_achievements_after_sync count as its achievement evaluation
ClaimedRank ==
    [step \in TraceSteps |->
    CASE step = "insert" -> 0
      [] step = "pb" -> 1
      [] step = "streak" -> 2
      [] step \in {"achievements", "distance", "longest", "performance", "unlock", "feed"} -> 3
      [] step = "challenge" -> 4
      [] step = "event" -> 5
      [] step = "shoe" -> 6
      [] step = "log" -> 7
      [] OTHER -> 8]

\* the place of a step in the order of the code
CodeRank ==
    [step \in TraceSteps |->
    CASE step = "insert" -> 0
      [] step = "pb" -> 1
      [] step = "challenge" -> 2
      [] step = "event" -> 3
      [] step = "shoe" -> 4
      [] step = "log" -> 5
      [] step = "achievements" -> 6
      [] step = "distance" -> 7
      [] step = "streak" -> 8
      [] step = "longest" -> 9
      [] step = "performance" -> 10
      [] step = "feed" -> 11
      [] OTHER -> 12]

\* the steps of a trace other than the unlock attempts and a failing flush
Calls(trace) == SelectSeq(trace, LAMBDA e : e.step \notin {"unlock", "flush"})

\* the runs of a batch are taken one after the other, and the steps of each run
\* follow the order `rank`
Ordered(trace, rank) ==
    \A k \in 1..(Len(trace) - 1) :
        \/ trace[k].i = trace[k + 1].i /\ rank[trace[k].step] <= rank[trace[k + 1].step]
        \/ trace[k].i + 1 = trace[k + 1].i /\ trace[k + 1].step = "insert"

\* C8 as stated: personal bests, streak update, achievement evaluation,
\* challenge matching, event matching, shoe mileage, activity-log entry
C8_CascadeOrder_AsStated ==
    \A p \in Procs : Ordered(SelectSeq(Trace(p), LAMBDA e : e.step # "flush"), ClaimedRank)

\* C8: for every newly stored run the steps are taken in the order personal
\* bests, challenge matching, event matching, shoe mileage (if a shoe is given),
\* the run's activity-log entry, then achievement evaluation: distance unlocks,
\* streak update, streak unlocks, performance and milestone unlocks, and the
\* activity entries of the unlocked achievements; every unlock attempt lies
\* between the distance query and those entries, every step but the upsert of a
\* personal best is taken at most once per run, and no step of run N+1 is taken
\* before the last step of run N
C8_CascadeOrder ==
    \A p \in Procs :
        /\ Ordered(Calls(Trace(p)), CodeRank)
        /\ \A k \in 1..(Len(Calls(Trace(p))) - 1) :
              LET e == Calls(Trace(p))[k]
                  n == Calls(Trace(p))[k + 1]
              IN /\ (e.i = n.i /\ e.step # "pb") => e.step # n.step
                 /\ e.i # n.i => e.step = "feed" \/ (e.step = "insert" /\ e.rc = 0)
        /\ \A k \in DOMAIN Trace(p) :
              Trace(p)[k].step = "unlock" =>
                 /\ k > 1
                 /\ Trace(p)[k - 1].step \in {"distance", "longest", "performance", "unlock"}
                 /\ Trace(p)[k - 1].i = Trace(p)[k].i
                 /\ k < Len(Trace(p)) =>
                       /\ Trace(p)[k + 1].step \in {"unlock", "streak", "performance", "feed"}
                       /\ Trace(p)[k + 1].i = Trace(p)[k].i

\* a finished request stored two runs and took every step for the first of
\* them, the shoe mileage and an unlock included
C8_Witness ==
    \E p \in Procs :
        /\ pc[p] = "done" /\ hist[p].inserted = {1, 2}
        /\ \A step \in {"insert", "pb", "challenge", "event", "shoe", "log", "achievements",
                        "distance", "streak", "longest", "performance", "unlock", "feed"} :
              \E k \in DOMAIN Trace(p) : Trace(p)[k].i = 1 /\ Trace(p)[k].step = step

MalformedSplits(km_splits_json) ==
    \/ km_splits_json.kind # "list"
    \/ \E k \in DOMAIN km_splits_json.items :
          _parse_time_to_seconds(km_splits_json.items[k].time).kind # "value"

\* C11: a newly stored run with a malformed split table does not make the sync
\* fail: no personal best, challenge best or event best refers to the run, and
\* the request goes on to the end of the run's cascade and of the batch
C11_MalformedSplitsSkipped ==
    \A p \in Procs : \A i \in hist[p].inserted :
        MalformedSplits(req[p].runs[i].km_splits_json) =>
            /\ ~(pc[p] = "failed" /\ loc[p].i = i)
            /\ \A k \in DOMAIN pbs : pbs[k].run_id # req[p].runs[i].id
            /\ \A k \in DOMAIN participations :
                  participations[k].best_run_id # req[p].runs[i].id
            /\ \A k \in DOMAIN registrations :
                  registrations[k].best_run_id # req[p].runs[i].id
            /\ Ended(p) => \E k \in DOMAIN Trace(p) :
                              Trace(p)[k].i = i /\ Trace(p)[k].step = "feed"

----------------------------------------------------------------------------
(* SpecStreakRace: the streak statements of two concurrent requests of one user.
   What a request does between two calls of update_streak neither reads nor
   writes user_streaks, and is taken as one step. *)

MaxRaceRuns == 6
MaxRaceDay == 6

\* the runs request p syncs: one device sends a long batch, the other a single run
RaceRuns(p) == IF p = "p1" THEN MaxRaceRuns ELSE 1

InitStreakRace == Init

\* sync_runs up to the call of update_streak for the next newly inserted run,
\* completed on day d
StreakRaceRun(p, d) ==
    /\ pc[p] \in {"idle", "performance", "unlock"}
    /\ loc[p].synced_count < RaceRuns(p)
    /\ req' = [req EXCEPT ![p] =
                 [user |-> "u1",
                  runs |-> <<[Payload("r1", "slow") EXCEPT !.completed_at = d]>>]]
    /\ loc' = [loc EXCEPT ![p] = [NoLoc EXCEPT !.i = 1,
                                               !.synced_count = loc[p].synced_count + 1]]
    /\ pc' = [pc EXCEPT ![p] = "streak"]
    /\ hist' = [hist EXCEPT ![p] = NoHist]
    /\ UNCHANGED <<storeVars, sess, resp, inp, out>>

NextStreakRace ==
    \E p \in Procs :
        \/ \E d \in 0..MaxRaceDay : StreakRaceRun(p, d)
        \/ UpdateStreak(p)
        \/ SelectLongest(p)
        \/ FlushError(p)

SpecStreakRace == InitStreakRace /\ [][NextStreakRace]_vars

\* C12: every user_streaks row has 1 <= current_streak_days <= longest_streak_days
C12_StreakInvariant ==
    \A u \in Users : streaks[u].exists =>
        1 <= streaks[u].current /\ streaks[u].current <= streaks[u].longest

----------------------------------------------------------------------------
(* Claims about the population of the leaderboards *)

\* the users a best-time query selects: opted in, with a personal best in the
\* category, passing the query's gender and age-group filters
BestTimePopulation(category, gender, age_group) ==
    {v \in Users : /\ users[v].opt_in
                   /\ HasPb(v, category)
                   /\ (gender # NoFilter => users[v].gender = gender)
                   /\ (age_group # NoFilter =>
                          _age_group_filter(age_group, users[v]))}

\* C13 (best-time mode): total_participants is the size of the filtered
\* population, your_value is the user's own best time, and your_rank is 1 + the
\* number of users of that same filtered population who are faster, whatever
\* limit and offset are
C13_FilteredPopulation ==
    (out.kind = "response" /\ HasPb(inp.user_id, inp.category)) =>
        LET population == BestTimePopulation(inp.category, inp.gender, inp.age_group)
        IN /\ out.total_participants = Cardinality(population)
           /\ out.your_value = PbTime(inp.user_id, inp.category)
           /\ out.your_rank =
                 1 + Cardinality({v \in population \ {inp.user_id} :
                                     PbTime(v, inp.category)
                                        < PbTime(inp.user_id, inp.category)})

OnPage == \E k \in DOMAIN out.entries : out.entries[k].user_id = inp.user_id

C15_DeterministicTies ==
    (out.kind = "response") =>
        \A again \in get_best_time_leaderboard(inp.user_id, inp.category,
                         inp.limit, inp.offset, inp.gender, inp.age_group) :
            again.entries = out.entries

----------------------------------------------------------------------------
(* SpecRegister: the join, register and unregister endpoints, called by two
   concurrent requests; one action per statement.  inp carries the clock. *)

MaxCalls == 2
MaxRegDay == 3

\* an event id no events row has
UnknownEvent == "e0"

\* events: registration_opens_at, registration_closes_at, max_participants of
\* the rows (None is NoInt)
EventRegistrationRules(e) ==
    CASE e = "e1" -> [registration_opens_at |-> NoInt, registration_closes_at |-> 2,
                      max_participants |-> 2]
      [] e = "e2" -> [registration_opens_at |-> 1, registration_closes_at |-> NoInt,
                      max_participants |-> NoInt]

\* a participation and a registration that already carry a standing
JoinedWithStanding == [Joined EXCEPT !.total_distance_km = 50]
RegisteredWithStanding ==
    [Registered EXCEPT !.best_run_id = "r1", !.best_time_seconds = 1500,
                       !.total_distance_km = 5]

RegIdle == [calls |-> 0, max_participants |-> NoInt]

\* the users whose calls arrive as request p (get_current_user)
Callers(p) == IF p = "p1" THEN {"u1", "u3"} ELSE {"u1", "u2"}

\* u3 may have joined c1 and registered for e1 before; nobody else has
InitRegister ==
    /\ users = DefaultUsers
    /\ runs = [r \in RunIds |-> NoRun]
    /\ pbs = [k \in Users \X CategorySet |-> NoPb]
    /\ streaks = [u \in Users |-> NoStreak]
    /\ achRows = <<>>
    /\ \E row \in {NoParticipation, JoinedWithStanding} :
           participations = [k \in Users \X Challenges |->
                               IF k = <<"u3", "c1">> THEN row ELSE NoParticipation]
    /\ \E row \in {NoRegistration, RegisteredWithStanding} :
           registrations = [k \in Users \X Events |->
                              IF k = <<"u3", "e1">> THEN row ELSE NoRegistration]
    /\ shoes = <<>>
    /\ activity = <<>>
    /\ pc = [p \in Procs |-> "idle"]
    /\ req = [p \in Procs |-> [op |-> "", user |-> "", target |-> ""]]
    /\ loc = [p \in Procs |-> RegIdle]
    /\ sess = [p \in Procs |-> NewSession]
    /\ resp = [p \in Procs |-> NoResp]
    /\ hist = [p \in Procs |-> NoHist]
    /\ inp = [now |-> 0]
    /\ out = Pending

\* the JSON body of a 200 answer, and the HTTPException(400) of the route
Answer(key, value) == [returned |-> TRUE, kind |-> key, value |-> value, detail |-> ""]
ClientError(detail) == [returned |-> TRUE, kind |-> "error", value |-> FALSE,
                        detail |-> detail]

\* the request ends with answer a
Finish(p, a) ==
    /\ resp' = [resp EXCEPT ![p] = a]
    /\ pc' = [pc EXCEPT ![p] = "idle"]
    /\ loc' = [loc EXCEPT ![p] = [RegIdle EXCEPT !.calls = loc[p].calls + 1]]

\* a request arrives
Accept(p, op, u, target) ==
    /\ pc[p] = "idle"
    /\ loc[p].calls < MaxCalls
    /\ req' = [req EXCEPT ![p] = [op |-> op, user |-> u, target |-> target]]

\* the clock advances
Tick ==
    /\ inp.now < MaxRegDay
    /\ inp' = [now |-> inp.now + 1]
    /\ UNCHANGED <<storeVars, reqVars, out>>

\* join_challenge: INSERT ... ON CONFLICT DO NOTHING, commit
JoinChallenge(p, u, c) ==
    /\ Accept(p, "join", u, c)
    /\ participations' =
          IF participations[u, c].exists THEN participations
          ELSE [participations EXCEPT ![u, c] = Joined]
    /\ Finish(p, Answer("joined", ~participations[u, c].exists))
    /\ UNCHANGED <<users, runs, pbs, streaks, achRows, registrations, shoes, activity,
                   sess, hist, inp, out>>

\* register_for_event: select the event, check the registration window
RegisterSelectEvent(p, u, e) ==
    /\ Accept(p, "register", u, e)
    /\ IF e = UnknownEvent
       THEN Finish(p, ClientError("Event not found"))
       ELSE LET event == EventRegistrationRules(e)
                now == inp.now
            IN IF event.registration_closes_at # NoInt
                  /\ now > event.registration_closes_at
               THEN Finish(p, ClientError("Registration has closed"))
               ELSE IF event.registration_opens_at # NoInt
                       /\ now < event.registration_opens_at
               THEN Finish(p, ClientError("Registration has not opened yet"))
               ELSE /\ pc' = [pc EXCEPT ![p] =
                                IF event.max_participants # NoInt
                                   /\ event.max_participants # 0
                                THEN "count" ELSE "register"]
                    /\ loc' = [loc EXCEPT ![p].max_participants =
                                                    event.max_participants]
                    /\ resp' = [resp EXCEPT ![p] = NoResp]
    /\ UNCHANGED <<storeVars, sess, hist, inp, out>>

\* register_for_event: count the registrations of the event, check capacity
RegisterCount(p) ==
    /\ pc[p] = "count"
    /\ LET current_count ==
               Cardinality({v \in Users : registrations[v, req[p].target].exists})
       IN IF current_count >= loc[p].max_participants
          THEN Finish(p, ClientError("Event is full"))
          ELSE /\ pc' = [pc EXCEPT ![p] = "register"]
               /\ UNCHANGED <<loc, resp>>
    /\ UNCHANGED <<storeVars, req, sess, hist, inp, out>>

\* register_for_event: INSERT ... ON CONFLICT DO NOTHING, commit
RegisterInsert(p) ==
    /\ pc[p] = "register"
    /\ LET u == req[p].user
           e == req[p].target
       IN /\ registrations' =
                IF registrations[u, e].exists THEN registrations
                ELSE [registrations EXCEPT ![u, e] = Registered]
          /\ Finish(p, Answer("registered", ~registrations[u, e].exists))
    /\ UNCHANGED <<users, runs, pbs, streaks, achRows, participations, shoes, activity,
                   req, sess, hist, inp, out>>

\* unregister_from_event: DELETE, commit
Unregister(p, u, e) ==
    /\ Accept(p, "unregister", u, e)
    /\ registrations' = [registrations EXCEPT ![u, e] = NoRegistration]
    /\ Finish(p, Answer("unregistered", registrations[u, e].exists))
    /\ UNCHANGED <<users, runs, pbs, streaks, achRows, participations, shoes, activity,
                   sess, hist, inp, out>>

NextRegister ==
    \/ Tick
    \/ \E p \in Procs :
          \/ \E u \in Callers(p), c \in Challenges : JoinChallenge(p, u, c)
          \/ \E u \in Callers(p), e \in Events \cup {UnknownEvent} :
                RegisterSelectEvent(p, u, e)
          \/ RegisterCount(p)
          \/ RegisterInsert(p)
          \/ \E u \in Callers(p), e \in Events : Unregister(p, u, e)

SpecRegister == InitRegister /\ [][NextRegister]_vars

\* C16: no event with a max_participants limit ever has more registrations
\* than the limit
C16_EventCapacity ==
    \A e \in Events :
        EventRegistrationRules(e).max_participants # NoInt =>
            Cardinality({v \in Users : registrations[v, e].exists})
                <= EventRegistrationRules(e).max_participants

\* the caller of request r already has the participation or registration row
AlreadyIn(r) ==
    \/ r.op = "join" /\ participations[r.user, r.target].exists
    \/ r.op = "register" /\ r.target \in Events
                         /\ registrations[r.user, r.target].exists

\* the registration window of the event of request r is open at the clock's time
WindowOpen(r) ==
    r.op = "register" =>
        LET event == EventRegistrationRules(r.target)
        IN /\ event.registration_closes_at # NoInt =>
                 inp.now <= event.registration_closes_at
           /\ event.registration_opens_at # NoInt =>
                 inp.now >= event.registration_opens_at

\* C17: a join_challenge or register_for_event call that ends while its caller
\* already has the row (and, for an event, while registration is open) changes
\* no participation or registration row and answers "not newly joined", never
\* an error; this covers a second call after the first, two concurrent calls,
\* and an event that became full in between
C17_IdempotentJoin ==
    [][\A p \in Procs :
          (/\ loc'[p].calls = loc[p].calls + 1
           /\ AlreadyIn(req'[p])
           /\ WindowOpen(req'[p]))
          => /\ UNCHANGED <<participations, registrations>>
             /\ resp'[p].kind # "error"
             /\ resp'[p].value = FALSE]_vars

----------------------------------------------------------------------------
(* Claims about eligibility and duplicate submission in the sync pipeline *)

\* the stored run is device-verified
Verified(r) == runs[r].exists /\ runs[r].data_source = "bluetooth_ftms"

\* the distance of the device-verified runs of user u completed in the window
\* of a challenge or event row
VerifiedKmIn(u, row) ==
    SumOver({r \in RunIds : /\ Verified(r) /\ runs[r].user_id = u
                            /\ InWindow(row, runs[r].completed_at)},
            [r \in RunIds |-> runs[r].distance_km])

\* a standing (stored, or pending in a session) of user u in a competition with
\* parent row `row` rests on device-verified runs only
VerifiedStanding(u, standing, row) ==
    /\ standing.best_run_id # "" => Verified(standing.best_run_id)
    /\ standing.total_distance_km <= VerifiedKmIn(u, row)

\* C18: a run is stored eligible exactly when its data_source is
\* 'bluetooth_ftms'; no personal best, challenge standing or event standing
\* (stored or pending) refers to a run that is not eligible or counts its
\* distance; and no such run is among the rows the yearly total sums
C18_EligibilityGating ==
    /\ \A r \in RunIds : runs[r].exists =>
          (runs[r].is_leaderboard_eligible <=> runs[r].data_source = "bluetooth_ftms")
    /\ \A u \in Users, cat \in CategorySet :
          pbs[u, cat].exists => Verified(pbs[u, cat].run_id)
    /\ \A u \in Users, c \in Challenges :
          VerifiedStanding(u, participations[u, c], ChallengeRow(c))
    /\ \A u \in Users, e \in Events :
          VerifiedStanding(u, registrations[u, e], EventRow(e))
    /\ \A p \in Procs : req[p].user # "" =>
          /\ \A c \in Challenges :
                VerifiedStanding(req[p].user, sess[p].parts[c].cur, ChallengeRow(c))
          /\ \A e \in Events :
                VerifiedStanding(req[p].user, sess[p].regs[e].cur, EventRow(e))
    /\ \A u \in Users : \A r \in YearRuns(u, 2024) : Verified(r)

\* a request has synced a verified run and then a manually entered run of 50 km,
\* both inside the window of the monthly challenge the user joined, and has
\* ended; the standing holds the 5 km of the verified run only
C18_Witness ==
    \E p \in Procs :
        /\ pc[p] = "done"
        /\ req[p].user = "u1"
        /\ hist[p].inserted = {1, 2}
        /\ runs["r1"].exists /\ runs["r1"].data_source = "bluetooth_ftms"
        /\ runs["r2"].exists /\ runs["r2"].data_source = "manual"
        /\ ~runs["r2"].is_leaderboard_eligible
        /\ participations["u1", "c1"].total_distance_km = 5
        /\ YearTotal("u1", 2024) = 5

\* the run ids that the two requests both submit, for one user
SubmittedByBoth ==
    IF req["p1"].user = "" \/ req["p1"].user # req["p2"].user THEN {}
    ELSE {r \in RunIds : \A p \in Procs :
                            \E i \in DOMAIN req[p].runs : req[p].runs[i].id = r}

\* the requests that counted run r as synced
SyncedBy(r) ==
    {p \in Procs : \E i \in hist[p].inserted : req[p].runs[i].id = r}

\* the 'run' entries of the activity log for run r
RunLogEntries(r) ==
    {k \in DOMAIN activity : /\ activity[k].activity_type = "run"
                             /\ activity[k].reference_id = r}

\* the distance of the stored runs of user u that reference shoe sh
ShoeKm(u, sh) ==
    SumOver({r \in RunIds : runs[r].exists /\ runs[r].user_id = u
                            /\ runs[r].shoe_id = sh},
            [r \in RunIds |-> runs[r].distance_km])

\* both requests have answered
BothDone == \A p \in Procs : pc[p] = "done"

\* C19, first half: of two requests of one user that both submit run r, exactly
\* one counts it as synced
C19_OneSyncs ==
    BothDone => \A r \in SubmittedByBoth : Cardinality(SyncedBy(r)) = 1

\* C19, activity log: the run has one 'run' entry
C19_OneLogEntry ==
    BothDone => \A r \in SubmittedByBoth : Cardinality(RunLogEntries(r)) = 1

\* C19, shoe mileage: the run's distance is in its shoe's mileage once
C19_ShoeOnce ==
    (BothDone /\ SubmittedByBoth # {}) =>
        \A sh \in ShoeIds :
            shoes[sh].total_distance_km = ShoeKm(shoes[sh].user_id, sh)

\* the verified runs of user u completed in the window of a competition row
CountedRuns(u, row) ==
    {r \in RunIds : /\ Verified(r) /\ runs[r].user_id = u
                    /\ InWindow(row, runs[r].completed_at)}

\* total is the distance of some of the counted runs, each once, among them
\* every counted run that both requests submitted
CountsSubmittedOnce(total, u, row) ==
    \E S \in SUBSET CountedRuns(u, row) :
        /\ SubmittedByBoth \cap CountedRuns(u, row) \subseteq S
        /\ total = SumOver(S, [r \in RunIds |-> runs[r].distance_km])

\* C19, cumulative distance: the run's distance is in the standings once
C19_DistanceOnce ==
    BothDone =>
        LET u == req["p1"].user
        IN /\ CountsSubmittedOnce(participations[u, "c1"].total_distance_km,
                                  u, ChallengeRow("c1"))
           /\ CountsSubmittedOnce(registrations[u, "e2"].total_distance_km,
                                  u, EventRow("e2"))

\* C19: when two requests of one user both submit a run that is not yet stored,
\* then once both have answered exactly one of them counted the run as synced,
\* the activity log has one 'run' entry for it, and its distance is once in its
\* shoe's mileage and once in the cumulative distance of the user's standings
C19_ConcurrentDuplicate ==
    /\ C19_OneSyncs
    /\ C19_OneLogEntry
    /\ C19_ShoeOnce
    /\ C19_DistanceOnce

----------------------------------------------------------------------------
(* Claims about the report of newly unlocked achievements *)

AchievementIds == {AchievementDefinitions[k].id : k \in DOMAIN AchievementDefinitions}

\* the user_achievements row of (u, id) exists
Unlocked(u, id) ==
    \E k \in DOMAIN achRows : achRows[k].user_id = u /\ achRows[k].achievement_id = id

\* the places of id in the newly_unlocked list of the response of request p
ReportedIn(p, id) ==
    IF resp[p].returned
    THEN {k \in DOMAIN resp[p].newly_unlocked : resp[p].newly_unlocked[k] = id}
    ELSE {}

\* how often the responses to user u report id as newly unlocked
TimesReported(u, id) ==
    SumOver({p \in Procs : req[p].user = u},
            [p \in Procs |-> Cardinality(ReportedIn(p, id))])

\* the 'achievement' entries of the activity log of user u for id
AchievementLogEntries(u, id) ==
    {k \in DOMAIN activity : /\ activity[k].activity_type = "achievement"
                             /\ activity[k].user_id = u
                             /\ activity[k].data = id}

\* C20: every achievement of a user is reported as newly unlocked by at most one
\* response, at most once, and only if its user_achievements row exists, and it
\* has at most one 'achievement' log entry; once all requests have ended, every
\* user_achievements row has been reported by exactly one response and has
\* exactly one 'achievement' log entry
C20_ReportedOnce ==
    \A u \in SyncUsers, id \in AchievementIds :
        /\ TimesReported(u, id) <= 1
        /\ Cardinality(AchievementLogEntries(u, id)) <= 1
        /\ TimesReported(u, id) = 1 => Unlocked(u, id)
        /\ ((\A p \in Procs : Ended(p)) /\ Unlocked(u, id)) =>
              /\ TimesReported(u, id) = 1
              /\ Cardinality(AchievementLogEntries(u, id)) = 1

----------------------------------------------------------------------------
(* Claims about the derived state after the syncs have ended *)

AllEnded == \A p \in Procs : Ended(p)

\* the time the stored run r yields for a category: the result of
\* _fastest_consecutive_time on its stored splits
ExtractedTime(r, cat) ==
    _fastest_consecutive_time(runs[r].km_splits_json, DISTANCE_CATEGORIES(cat))

\* the stored eligible runs of user u that yield a time for the category
TimedRuns(u, cat) ==
    {r \in RunIds : /\ runs[r].exists /\ runs[r].user_id = u
                    /\ runs[r].is_leaderboard_eligible /\ runs[r].has_splits
                    /\ ExtractedTime(r, cat).kind = "value"}

\* C21: once all requests have ended, the personal_bests row of each (user,
\* category) exists exactly when one of the user's stored eligible runs yields
\* a time for the category, holds the minimum of those times, and refers to a
\* run of the user that yields the stored time
C21_PbIsMinimum ==
    AllEnded =>
        \A u \in Users, cat \in CategorySet :
            LET timed == TimedRuns(u, cat)
                row == pbs[<<u, cat>>]
            IN /\ row.exists <=> timed # {}
               /\ row.exists =>
                     /\ row.time_seconds = SetMin({ExtractedTime(r, cat).v : r \in timed})
                     /\ row.run_id \in timed
                     /\ ExtractedTime(row.run_id, cat).v = row.time_seconds

\* two requests of one user have ended; the slower run's upsert came after the
\* faster run's and was turned down; the row holds the faster run
C21_Witness ==
    /\ \A p \in Procs : pc[p] = "done" /\ req[p].user = "u1"
    /\ TimedRuns("u1", "5K") = {"r1", "r2"}
    /\ ExtractedTime("r1", "5K").v = 1500
    /\ pbs[<<"u1", "5K">>].time_seconds = 1400 /\ pbs[<<"u1", "5K">>].run_id = "r2"
    /\ \E p \in Procs : \E k \in DOMAIN Trace(p) :
          Trace(p)[k].step = "pb" /\ Trace(p)[k].rc = 0

\* C22: an upsert of compute_personal_bests appends a 'pb' activity-log entry
\* exactly when the (user, category) row existed and its time was strictly
\* higher than the new time; the first insert appends none; an equal or higher
\* time appends none and leaves the row unchanged
C22_PbActivityLogging ==
    [][\A p \in Procs :
          (/\ pc[p] = "pb"
           /\ Len(hist'[p].trace) = Len(hist[p].trace) + 1
           /\ hist'[p].trace[Len(hist'[p].trace)].rc # NoInt)
          => LET cat == Categories[loc'[p].cat - 1]
                 old == pbs[<<req[p].user, cat>>]
                 t == _fastest_consecutive_time(Cur(p).km_splits_json,
                                                DISTANCE_CATEGORIES(cat)).v
                 entry == LogRow(req[p].user, "pb", Cur(p).id, <<cat, t>>)
                 logged == \E k \in DOMAIN sess'[p].logs : sess'[p].logs[k] = entry
             IN /\ logged <=> (old.exists /\ t < old.time_seconds)
                /\ (old.exists /\ t >= old.time_seconds)
                      => pbs'[<<req[p].user, cat>>] = old]_vars

----------------------------------------------------------------------------
(* SpecBatch: the pipeline on one batch whose first run (26:40 over 5 km) is
   slower than the threshold of a performance achievement and whose second run
   (23:20) is faster, next to a concurrent request with a single run *)

BatchOf(p) ==
    IF p = "p1" THEN <<Payload("r1", "jog"), Payload("r2", "fast")>>
    ELSE <<Payload("r3", "jog")>>

\* sync_runs, entry, for that batch
StartBatch(p) ==
    /\ pc[p] = "idle"
    /\ \E u \in UsersOf(p) :
          req' = [req EXCEPT ![p] = [user |-> u, runs |-> BatchOf(p)]]
    /\ pc' = [pc EXCEPT ![p] = "insert"]
    /\ loc' = [loc EXCEPT ![p] = [NoLoc EXCEPT !.i = 1]]
    /\ UNCHANGED <<storeVars, sess, resp, hist, inp, out>>

NextBatch ==
    \E p \in Procs :
        \/ StartBatch(p)
        \/ SyncInsert(p)
        \/ ComputePersonalBests(p)
        \/ CheckChallengeParticipation(p)
        \/ CheckEventParticipation(p)
        \/ ShoeAddMileage(p)
        \/ LogRun(p)
        \/ SelectExisting(p)
        \/ SelectDistance(p)
        \/ Unlock(p)
        \/ UpdateStreak(p)
        \/ SelectLongest(p)
        \/ SelectPersonalBests(p)
        \/ LogAchievements(p)
        \/ Respond(p)
        \/ Commit(p)
        \/ FlushError(p)

SpecBatch == Init /\ [][NextBatch]_vars

\* the rule of an achievement definition for user u, on the stored state
RuleHolds(u, defn) ==
    CASE defn.category = "distance" -> LifetimeKm(u) >= defn.threshold
      [] defn.category = "streak" ->
            streaks[u].exists /\ streaks[u].longest >= defn.threshold
      [] defn.category = "performance" ->
            /\ pbs[<<u, defn.pb_category>>].exists
            /\ pbs[<<u, defn.pb_category>>].time_seconds <= defn.threshold
      [] defn.category = "milestone" ->
            \E r \in RunIds : /\ runs[r].exists /\ runs[r].user_id = u
                              /\ (defn.threshold = 0 \/ runs[r].distance_km >= defn.threshold)

\* C23: once the cascades of all requests have completed, the user_achievements
\* row exists for every definition whose rule holds for the user (lifetime
\* distance, longest streak, personal best of the mapped category, a run's own
\* distance), and at no time does a row exist for a definition whose rule does
\* not hold
C23_RulesOnUpdatedState ==
    \A u \in SyncUsers : \A k \in DOMAIN AchievementDefinitions :
        LET defn == AchievementDefinitions[k]
        IN /\ Unlocked(u, defn.id) => RuleHolds(u, defn)
           /\ ((\A p \in Procs : pc[p] = "done") /\ RuleHolds(u, defn))
                 => Unlocked(u, defn.id)

----------------------------------------------------------------------------
(* Claims about the streak as a function of the run dates *)

\* the calendar days on which the user has a run
RunDates == {inp.dates[k] : k \in DOMAIN inp.dates}

\* the number of consecutive days with a run that end at day d
BlockEnding(d) ==
    Cardinality({n \in 1..MaxStreakRuns : \A j \in 0..(n - 1) : (d - j) \in RunDates})

SetMax(S) == CHOOSE x \in S : \A y \in S : x >= y

\* C24: after any sequence of runs, current_streak_days is the length of the
\* block of consecutive run days ending at the latest run day, and
\* longest_streak_days is the length of the longest block of consecutive run days
C24_StreakMatchesDefinition ==
    inp.dates # <<>> =>
        /\ streaks[StreakUser].current = BlockEnding(SetMax(RunDates))
        /\ streaks[StreakUser].longest = SetMax({BlockEnding(d) : d \in RunDates})

----------------------------------------------------------------------------
(* Claims about the standings of challenges and events *)

\* a standing's best time, once set, is kept or lowered by the step
BestTimeKept(old, new) ==
    old.best_time_seconds # NoInt =>
        /\ new.best_time_seconds # NoInt
        /\ new.best_time_seconds <= old.best_time_seconds

\* C25: the best_time_seconds of a challenge participation or an event
\* registration never increases once set, whatever the interleaving of the
\* user's syncs
C25_RaceStandingBetterOnly ==
    [][/\ \A k \in Users \X Challenges :
             BestTimeKept(participations[k], participations'[k])
       /\ \A k \in Users \X Events :
             BestTimeKept(registrations[k], registrations'[k])]_vars

\* C26: once all requests have answered, the total_distance_km of every
\* monthly-distance participation and of every group-run registration is the sum
\* of the distances of the user's stored eligible runs completed in the window,
\* each counted once
C26_CumulativeDistance ==
    (\A p \in Procs : pc[p] = "done") =>
        /\ \A u \in Users, c \in Challenges :
              (/\ participations[u, c].exists
               /\ ChallengeRow(c).challenge_type = "monthly_distance")
              => participations[u, c].total_distance_km
                    = VerifiedKmIn(u, ChallengeRow(c))
        /\ \A u \in Users, e \in Events :
              (/\ registrations[u, e].exists
               /\ EventRow(e).event_type = "group_run")
              => registrations[u, e].total_distance_km = VerifiedKmIn(u, EventRow(e))

----------------------------------------------------------------------------
(* Claims about shoe mileage *)

\* C27: once all requests have ended, the total_distance_km of every shoe is
\* its initial value (0) plus the distances of the stored runs that reference
\* the shoe and were synced by its owner, each counted once; runs of other
\* users that reference the shoe add nothing
C27_ShoeMileage ==
    AllEnded =>
        \A sh \in ShoeIds : shoes[sh].total_distance_km = ShoeKm(shoes[sh].user_id, sh)

----------------------------------------------------------------------------
(* Claims about the scope of a sync request *)

\* every stored row that user v owns
OwnedBy(v) ==
    [runs |-> [r \in RunIds |-> IF runs[r].exists /\ runs[r].user_id = v
                                THEN runs[r] ELSE NoRun],
     pbs |-> [c \in CategorySet |-> pbs[<<v, c>>]],
     streak |-> streaks[v],
     achievements |-> SelectSeq(achRows, LAMBDA row : row.user_id = v),
     participations |-> [c \in Challenges |-> participations[v, c]],
     registrations |-> [e \in Events |-> registrations[v, e]],
     shoes |-> [sh \in ShoeIds |-> IF shoes[sh].user_id = v
                                   THEN shoes[sh].total_distance_km ELSE 0],
     activity |-> SelectSeq(activity, LAMBDA row : row.user_id = v)]

\* the step is taken by request p
Acting(p) ==
    \/ pc'[p] # pc[p] \/ loc'[p] # loc[p] \/ hist'[p] # hist[p]
    \/ sess'[p] # sess[p] \/ req'[p] # req[p]

\* C28: a step that creates or changes a row owned by user v is a step of a
\* sync request of v; a request of another user, also one that submits a run
\* identifier persisted under v, changes none of v's rows
C28_ScopedToActingUser ==
    [][\A v \in Users :
          OwnedBy(v)' # OwnedBy(v) => \E p \in Procs : Acting(p) /\ req'[p].user = v]_vars

\* run r1 is stored under u2; u1 submitted a run with the same identifier, which
\* was counted as already existing, and a run that references the shoe of u2;
\* u2's shoe and u1's derived state of r1 are untouched
C28_Witness ==
    /\ runs["r1"].exists /\ runs["r1"].user_id = "u2"
    /\ pc["p1"] = "done" /\ req["p1"].user = "u1"
    /\ Len(req["p1"].runs) = 2
    /\ req["p1"].runs[1].id = "r1"
    /\ req["p1"].runs[2].shoe_id = "s2"
    /\ hist["p1"].inserted = {2}
    /\ shoes["s2"].total_distance_km = 0
    /\ shoes["s1"].total_distance_km = 0
    /\ pbs[<<"u2", "5K">>].run_id = "r1"

----------------------------------------------------------------------------
(* SpecAge: the age-group filter and _age_from_dob on one date of birth *)

MinBirthYear == 1950
MaxBirthYear == 2010

\* the birthdays tried: the reference day of the year, the day after it, and
\* two later days
Birthdays == {<<1, 1>>, <<1, 2>>, <<6, 15>>, <<12, 31>>}

\* _age_from_dob for a well-formed date string and a reference date
_age_from_dob(dob, ref) ==
    IF dob = NoDate THEN NoInt
    ELSE LET before == \/ ref[2] < dob[2]
                       \/ ref[2] = dob[2] /\ ref[3] < dob[3]
         IN ref[1] - dob[1] - (IF before THEN 1 ELSE 0)

InitAge ==
    /\ StoreEmpty
    /\ ReqIdle
    /\ \E y \in MinBirthYear..MaxBirthYear, md \in Birthdays :
          inp = [dob |-> <<y, md[1], md[2]>>, age_group |-> NoFilter]
    /\ out = Pending

\* a leaderboard query with an age group reaches a user born on inp.dob
AgeQuery(age_group) ==
    /\ inp' = [inp EXCEPT !.age_group = age_group]
    /\ out' = [kind |-> "age",
               passes |-> _age_group_filter(age_group, [dob |-> inp.dob]),
               age |-> _age_from_dob(inp.dob, Today)]
    /\ UNCHANGED <<storeVars, reqVars>>

NextAge == \E age_group \in AgeGroupNames : AgeQuery(age_group)

SpecAge == InitAge /\ [][NextAge]_vars

\* C29: a user passes the filter of an age group exactly when the age
\* _age_from_dob computes at the reference date lies within the group's bounds
C29_AgeBuckets ==
    out.kind = "age" =>
        (out.passes <=> /\ AGE_GROUPS(inp.age_group)[1] <= out.age
                        /\ out.age <= AGE_GROUPS(inp.age_group)[2])

----------------------------------------------------------------------------
(* SpecShoes: concurrent create_shoe / update_shoe / delete_shoe requests *)

MaxShoeCalls == 2

\* the ids uuid4 can hand out; s1 belongs to u1, s2 to u2, s3 and s4 are free
ShoeSlots == {"s1", "s2", "s3", "s4"}
NoShoeRow == [exists |-> FALSE, user_id |-> "", is_default |-> FALSE,
              total_distance_km |-> 0]
ShoeIdle == [calls |-> 0, shoe |-> NoShoeRow]

\* Optional[bool] of ShoeUpdateRequest.is_default; create_shoe takes a bool
OptionalBool == {"None", "True", "False"}

\* UPDATE shoes SET is_default = false WHERE user_id = :user_id AND is_default
_clear_defaults(table, user_id) ==
    [sh \in DOMAIN table |->
        IF table[sh].exists /\ table[sh].user_id = user_id /\ table[sh].is_default
        THEN [table[sh] EXCEPT !.is_default = FALSE]
        ELSE table[sh]]

\* SELECT ... WHERE id = :shoe_id AND user_id = :user_id; scalar_one_or_none
get_shoe(table, shoe_id, user_id) ==
    IF table[shoe_id].exists /\ table[shoe_id].user_id = user_id
    THEN table[shoe_id] ELSE NoShoeRow

\* the INSERT gets a fresh uuid4: the first id no row holds
ShoeOrder == <<"s1", "s2", "s3", "s4">>
FreshShoeId(table) ==
    ShoeOrder[CHOOSE i \in 1..Len(ShoeOrder) :
                 /\ ~table[ShoeOrder[i]].exists
                 /\ \A j \in 1..(i - 1) : table[ShoeOrder[j]].exists]

\* an exception that leaves the route: the answer is a 500
StaleDataError == [returned |-> TRUE, kind |-> "error", value |-> FALSE,
                   detail |-> "StaleDataError"]

DefaultShoes(u) == {sh \in DOMAIN shoes : /\ shoes[sh].exists
                                          /\ shoes[sh].user_id = u
                                          /\ shoes[sh].is_default}

\* u1 owns s1 (default or not) and perhaps s3, u2 owns the default shoe s2
InitShoes ==
    /\ users = DefaultUsers
    /\ runs = [r \in RunIds |-> NoRun]
    /\ pbs = [k \in Users \X CategorySet |-> NoPb]
    /\ streaks = [u \in Users |-> NoStreak]
    /\ achRows = <<>>
    /\ participations = <<>>
    /\ registrations = <<>>
    /\ activity = <<>>
    /\ \E d \in BOOLEAN, second \in BOOLEAN :
          shoes = [sh \in ShoeSlots |->
                     CASE sh = "s1" -> [exists |-> TRUE, user_id |-> "u1",
                                        is_default |-> d, total_distance_km |-> 0]
                       [] sh = "s2" -> [exists |-> TRUE, user_id |-> "u2",
                                        is_default |-> TRUE, total_distance_km |-> 0]
                       [] sh = "s3" /\ second ->
                                       [exists |-> TRUE, user_id |-> "u1",
                                        is_default |-> FALSE, total_distance_km |-> 0]
                       [] OTHER -> NoShoeRow]
    /\ pc = [p \in Procs |-> "idle"]
    /\ req = [p \in Procs |-> [op |-> "", user |-> "", target |-> "",
                               is_default |-> "None"]]
    /\ loc = [p \in Procs |-> ShoeIdle]
    /\ sess = [p \in Procs |-> [none |-> TRUE]]
    /\ resp = [p \in Procs |-> NoResp]
    /\ hist = [p \in Procs |-> NoHist]
    /\ inp = [none |-> TRUE]
    /\ out = Pending

ShoeUnchanged ==
    UNCHANGED <<users, runs, pbs, streaks, achRows, participations, registrations,
                activity, sess, hist, inp, out>>

\* the route returns (or raises) and the request is over
ShoeFinish(p, a) ==
    /\ resp' = [resp EXCEPT ![p] = a]
    /\ pc' = [pc EXCEPT ![p] = "idle"]
    /\ loc' = [loc EXCEPT ![p] = [ShoeIdle EXCEPT !.calls = loc[p].calls + 1]]

\* POST /api/shoes, PUT and DELETE /api/shoes/{shoe_id} arrive
ShoeRequest(p, op, u, target, is_default) ==
    /\ pc[p] = "idle"
    /\ loc[p].calls < MaxShoeCalls
    /\ op = "create" => target = NoShoe /\ is_default # "None"
    /\ op # "create" => target \in ShoeSlots
    /\ op = "delete" => is_default = "None"
    /\ req' = [req EXCEPT ![p] = [op |-> op, user |-> u, target |-> target,
                                  is_default |-> is_default]]
    /\ resp' = [resp EXCEPT ![p] = NoResp]
    /\ pc' = [pc EXCEPT ![p] = IF op = "create" THEN "clear" ELSE "get"]
    /\ UNCHANGED <<shoes, loc>>
    /\ ShoeUnchanged

\* update_shoe / delete_shoe routes: get_shoe, 404 when it is not the caller's
ShoeLookup(p) ==
    /\ pc[p] = "get"
    /\ LET shoe == get_shoe(shoes, req[p].target, req[p].user)
       IN IF ~shoe.exists
          THEN ShoeFinish(p, ClientError("Shoe not found"))
          ELSE /\ loc' = [loc EXCEPT ![p].shoe = shoe]
               /\ pc' = [pc EXCEPT ![p] = IF req[p].op = "update"
                                          THEN "clear" ELSE "delete"]
               /\ UNCHANGED resp
    /\ UNCHANGED <<shoes, req>>
    /\ ShoeUnchanged

\* create_shoe / update_shoe: `if is_default: await _clear_defaults(db, user_id)`
ClearDefaults(p) ==
    /\ pc[p] = "clear"
    /\ shoes' = IF req[p].is_default = "True"
                THEN _clear_defaults(shoes, req[p].user) ELSE shoes
    /\ pc' = [pc EXCEPT ![p] = IF req[p].op = "create" THEN "insert" ELSE "update"]
    /\ UNCHANGED <<req, loc, resp>>
    /\ ShoeUnchanged

\* create_shoe: db.add(shoe); commit -- the INSERT with a fresh uuid4
create_shoe(p) ==
    /\ pc[p] = "insert"
    /\ \E id \in ShoeSlots : ~shoes[id].exists
    /\ shoes' = [shoes EXCEPT ![FreshShoeId(shoes)] =
                    [exists |-> TRUE, user_id |-> req[p].user,
                     is_default |-> (req[p].is_default = "True"),
                     total_distance_km |-> 0]]
    /\ ShoeFinish(p, Answer("shoe", TRUE))
    /\ UNCHANGED req
    /\ ShoeUnchanged

\* update_shoe: `if is_default is not None: shoe.is_default = is_default`;
\* commit flushes UPDATE shoes SET is_default WHERE id = shoe.id, which raises
\* StaleDataError when the row is gone
update_shoe(p) ==
    /\ pc[p] = "update"
    /\ LET id == req[p].target
       IN IF req[p].is_default = "None"
          THEN /\ shoes' = shoes
               /\ ShoeFinish(p, Answer("shoe", TRUE))
          ELSE IF ~shoes[id].exists
          THEN /\ shoes' = shoes
               /\ ShoeFinish(p, StaleDataError)
          ELSE /\ shoes' = [shoes EXCEPT
                              ![id].is_default = (req[p].is_default = "True")]
               /\ ShoeFinish(p, Answer("shoe", TRUE))
    /\ UNCHANGED req
    /\ ShoeUnchanged

\* delete_shoe: db.delete(shoe); commit -- a DELETE that matches no row any
\* more only warns, the route answers 204 either way
delete_shoe(p) ==
    /\ pc[p] = "delete"
    /\ shoes' = [shoes EXCEPT ![req[p].target] = NoShoeRow]
    /\ ShoeFinish(p, Answer("deleted", TRUE))
    /\ UNCHANGED req
    /\ ShoeUnchanged

NextShoes ==
    \E p \in Procs :
        \/ \E op \in {"create", "update", "delete"}, u \in UsersOf(p),
              target \in ShoeSlots \cup {NoShoe}, is_default \in OptionalBool :
                 ShoeRequest(p, op, u, target, is_default)
        \/ ShoeLookup(p)
        \/ ClearDefaults(p)
        \/ create_shoe(p)
        \/ update_shoe(p)
        \/ delete_shoe(p)

SpecShoes == InitShoes /\ [][NextShoes]_vars

\* C30: in every reachable state each user has at most one shoe with
\* is_default = true, whatever create_shoe, update_shoe and delete_shoe calls
\* of that user ran and however they interleaved; and the statement that
\* clears the defaults of a user changes no shoe of another user.
C30_SingleDefaultShoe ==
    \A u \in Users : Cardinality(DefaultShoes(u)) <= 1

====
